---- MODULE Spec2Model ----
(***************************************************************************)
(* ZoteroClient (zotero-api.ts): the rate governor rateLimitedFetch, the   *)
(* failure mapping throwOnError and the operations built on them, run by   *)
(* callers that share client instances, against a versioned item server.   *)
(*                                                                         *)
(* One action is one turn of the Node event loop for one caller: the code  *)
(* between two suspension points (a timer, a pending fetch) runs without   *)
(* interleaving.  Time is the value Date.now() returns, in milliseconds.   *)
(***************************************************************************)
EXTENDS Integers, Sequences, FiniteSets, TLC

\* --------------------------------------------------------------- bounds
\* The clock advances in steps of Quantum ms and stops at the horizon of the
\* specification: MaxTime in sequential use, ConcHorizon where two callers
\* share the instance, AddHorizon where they write to the item.
Quantum == 500
MaxTime == 9000
AddHorizon == 4000
ConcHorizon == 6000
\* Operations invoked in a run, by all callers together.
MaxCalls == 2
\* The other writer stops once the item's version reaches this value.
MaxVersion == 3
\* The clock of the attachment specification stops at this time.
ToolHorizon == 4000
\* The clock of the throwOnError specification stops at this time.
ThrowHorizon == 4000
\* The clock of the two-instance specification stops at this time.
InstHorizon == 5000
ConfigHorizon == 4000
LiveHorizon == 2500
RetryHorizon == 9000
AttachHorizon == 4000
WaitsHorizon == 6000
\* SSE connections opened in a run.
MaxSessions == 2
\* The server sends pages of up to MaxPage items and totals up to MaxTotal;
\* the clock of the paging specification stops at PageHorizon.
MaxPage == 2
MaxTotal == 12
PageHorizon == 5000
\* The clock of the specification of the writes stops at WriteHorizon.
WriteHorizon == 5000

\* ------------------------------------------------------ program constants
MIN_INTERVAL_MS == 1000
DEFAULT_RETRY_WAIT_MS == 5000
MS_PER_SECOND == 1000
\* setTimeout treats a delay below 1 (or NaN) as 1 ms.
MIN_TIMER_MS == 1
\* The page asked for when the caller names none.
DEFAULT_LIMIT == 25
DEFAULT_OFFSET == 0

\* JavaScript's NaN, a value outside every timestamp the model reaches.
NaN == 0 - 2147483647

\* The first Date.now() of a run: the construction time of the client, far
\* from the initial lastRequestTime of 0.
Epoch == 2 * MIN_INTERVAL_MS

Procs == {"p1", "p2"}
Instances == {"c1", "c2"}

\* ------------------------------------------------- strings and numbers
\* A string is the sequence of its characters.
DigitChars == <<"0", "1", "2", "3", "4", "5", "6", "7", "8", "9">>

IsDigit(c) == \E d \in 1..10 : DigitChars[d] = c

DigitValue(c) == (CHOOSE d \in 1..10 : DigitChars[d] = c) - 1

RECURSIVE ParseDigits(_, _)
ParseDigits(s, acc) ==
    IF s = <<>> \/ ~IsDigit(Head(s))
    THEN acc
    ELSE ParseDigits(Tail(s), acc * 10 + DigitValue(Head(s)))

\* parseInt(s, 10): an optional sign, then the longest prefix of digits;
\* NaN when there is no digit.
ParseInt(s) ==
    LET neg  == s # <<>> /\ Head(s) = "-"
        body == IF neg THEN Tail(s) ELSE s
    IN  IF body = <<>> \/ ~IsDigit(Head(body))
        THEN NaN
        ELSE IF neg THEN 0 - ParseDigits(body, 0) ELSE ParseDigits(body, 0)

\* String(n) for a natural number n.
RECURSIVE NumberToString(_)
NumberToString(n) ==
    IF n < 10
    THEN <<DigitChars[n + 1]>>
    ELSE Append(NumberToString(n \div 10), DigitChars[(n % 10) + 1])

\* Arithmetic and comparison on JavaScript numbers: NaN is absorbing and
\* every comparison with NaN is false.
NumAdd(a, b) == IF a = NaN \/ b = NaN THEN NaN ELSE a + b
NumMul(a, b) == IF a = NaN \/ b = NaN THEN NaN ELSE a * b
NumGt(a, b) == a # NaN /\ b # NaN /\ a > b

\* response.headers.get(name) is null when the header is absent; a string
\* is truthy unless it is empty.
HasHeader(h, name) == name \in DOMAIN h
HeaderTruthy(h, name) == HasHeader(h, name) /\ h[name] # <<>>

NoHeaders == [n \in {} |-> <<>>]
OneHeader(name, value) == [n \in {name} |-> value]

\* ----------------------------------------------------------------- state
VARIABLES
    now,              \* Date.now()
    lastRequestTime,  \* per client instance: this.lastRequestTime
    backoffUntil,     \* per client instance: this.backoffUntil
    pc,               \* per caller: where its async call is suspended
    timer,            \* per caller: when its pending setTimeout is due
    cur,              \* per caller: the locals of the operation in progress
    client,           \* per caller: the client instance it calls
    server,           \* the item on the server: version and collections
    env,              \* what the callers may invoke, what the server may send
    ncalls,           \* operations invoked so far
    \* History, written by the actions and read only by the properties:
    sent,             \* per instance: the times of its last two requests,
                      \* the cooldown left and the latest deadline asked for
                      \* when the last one went out
    owed,             \* per instance: the latest deadline a Backoff asked for
    firstSend,        \* per instance: the first request of its latest operation
    obs,              \* per caller: what its operation in progress did so far
    gov,              \* per caller: its latest finished rateLimitedFetch call
    retried,          \* the retries after a 429: how long after the 429 each
                      \* went out, and the headers of that 429
    patched,          \* per caller: its latest PATCH sent
    done,             \* per caller: its latest finished operation
    mutating,         \* per caller: the mutating requests (POST, PATCH) of
                      \* its operation, as sent, in order
    accepted,         \* the PATCHes the server accepted, in order
    \* SSE mode (index.ts main):
    sessions,         \* the session map: sessionId -> transport
    transports,       \* the SSEServerTransports created so far, in order
    handled           \* history: the HTTP requests handled and their answers

state == <<now, lastRequestTime, backoffUntil, pc, timer, cur, client,
           server, env, ncalls>>
history == <<sent, owed, firstSend, obs, gov, retried, patched, done,
             mutating, accepted>>
sse == <<sessions, transports, handled>>
vars == <<state, history, sse>>

CollectionKeys == {"A", "B"}
IfUnmodified == "If-Unmodified-Since-Version"

NoItem == [version |-> 0, collections |-> <<>>]
NoError == [context |-> "", msg |-> <<>>]
NoRequest == [method |-> "", path |-> "", headers |-> NoHeaders, body |-> <<>>]
\* The arguments of a tool call and the attachment a handler resolved.
NoArgs == [itemKey |-> "", forceRemote |-> FALSE]
NoAttachment == [key |-> "", filename |-> "", contentType |-> ""]
NoCall == [op |-> "", stage |-> "", call |-> 0, target |-> "",
           req |-> NoRequest, item |-> NoItem, handlerItem |-> NoItem,
           args |-> NoArgs, att |-> NoAttachment]

\* ------------------------------------------------------- rate governor
\* setTimeout(resolve, ms): the delay Node arms the timer with.
SleepDelay(ms) == IF ms = NaN \/ ms < MIN_TIMER_MS THEN MIN_TIMER_MS ELSE ms

\* Mutant: the time of a send is not recorded before the exchange.
SendStamp_kept(lrt, t) == lrt

\* `this.lastRequestTime = Date.now()` before the first attempt is sent.
SendStamp(lrt, t) == t

\* Mutant: the interval sleep is a full interval, whatever has elapsed.
AfterBackoffWait_full(lrt, t) ==
    IF t - lrt < MIN_INTERVAL_MS
    THEN [pc |-> "waitInterval", timer |-> t + SleepDelay(MIN_INTERVAL_MS),
          lrt |-> lrt, sent |-> FALSE]
    ELSE [pc |-> "fetch", timer |-> 0, lrt |-> SendStamp(lrt, t),
          sent |-> TRUE]

\* rateLimitedFetch after the cooldown wait: the minimum-interval check,
\* then the send.  lrt is this.lastRequestTime, t is Date.now().
AfterBackoffWait(lrt, t) ==
    LET elapsed == t - lrt
    IN  IF elapsed < MIN_INTERVAL_MS
        THEN [pc |-> "waitInterval",
              timer |-> t + SleepDelay(MIN_INTERVAL_MS - elapsed),
              lrt |-> lrt, sent |-> FALSE]
        ELSE [pc |-> "fetch", timer |-> 0, lrt |-> SendStamp(lrt, t),
          sent |-> TRUE]

\* rateLimitedFetch from its entry up to its first suspension.
\* bu is this.backoffUntil.
EnterGovernor(bu, lrt, t) ==
    IF NumGt(bu, t)
    THEN [pc |-> "waitBackoff", timer |-> t + SleepDelay(bu - t),
          lrt |-> lrt, sent |-> FALSE]
    ELSE AfterBackoffWait(lrt, t)

\* Mutant: a response without the header clears the deadline.
BackoffAfter_cleared(bu, resp, t) ==
    IF HeaderTruthy(resp.headers, "Backoff")
    THEN NumAdd(t, NumMul(ParseInt(resp.headers["Backoff"]), MS_PER_SECOND))
    ELSE 0

\* The Backoff header of a response: the new value of this.backoffUntil.
BackoffAfter(bu, resp, t) ==
    IF HeaderTruthy(resp.headers, "Backoff")
    THEN NumAdd(t, NumMul(ParseInt(resp.headers["Backoff"]), MS_PER_SECOND))
    ELSE bu

\* Mutant: a 412 is retried like a 429.
ShouldRetry_also412(resp) == resp.status \in {429, 412}

\* Mutant: the 429 branch is missing.
ShouldRetry_never(resp) == FALSE

\* Whether rateLimitedFetch retries after this response.
ShouldRetry(resp) == resp.status = 429

\* Mutant: Retry-After taken as milliseconds, and a shorter default.
RetryWaitMs_unscaled(resp) ==
    IF HeaderTruthy(resp.headers, "Retry-After")
    THEN ParseInt(resp.headers["Retry-After"])
    ELSE MS_PER_SECOND

\* How long rateLimitedFetch sleeps before the retry.
RetryWaitMs(resp) ==
    IF HeaderTruthy(resp.headers, "Retry-After")
    THEN NumMul(ParseInt(resp.headers["Retry-After"]), MS_PER_SECOND)
    ELSE DEFAULT_RETRY_WAIT_MS

\* ------------------------------------------------------- throwOnError
Messages ==
    [s \in {400, 403, 404, 409, 412, 413, 429, 503} |->
        CASE s = 400 -> "Bad request - check parameters"
          [] s = 403 -> "Forbidden - invalid API key or insufficient permissions"
          [] s = 404 -> "Not found - check the key or library ID"
          [] s = 409 -> "Conflict - the library is currently locked; try again later"
          [] s = 412 -> "Precondition failed - item was modified by another client"
          [] s = 413 -> "Request too large"
          [] s = 429 -> "Rate limit exceeded"
          [] s = 503 -> "Zotero service temporarily unavailable"]

\* response.ok
ResponseOk(status) == status >= 200 /\ status < 300

\* Mutant: every status gets the generic message.
MessageFor_generic(status) == <<"HTTP ", status>>

\* STATUS_MESSAGES[response.status] ?? `HTTP ${response.status}`
MessageFor(status) ==
    IF status \in DOMAIN Messages THEN <<Messages[status]>> ELSE <<"HTTP ", status>>

\* The body of a response whose text() rejects.
Unreadable == <<"body", "unreadable">>

\* await response.text().catch(() => "")
BodyText(body) == IF body = Unreadable THEN <<>> ELSE body

\* Mutant: the text of the body is appended without looking at it.
Diagnostic_raw(body) == <<" - ">> \o body

\* `${body ? ` - ${body}` : ""}`
Diagnostic(body) ==
    IF BodyText(body) # <<>> THEN <<" - ">> \o BodyText(body) ELSE <<>>

\* The failure throwOnError raises, NoError when it raises none.
ThrowOnError(resp, context) ==
    IF ResponseOk(resp.status)
    THEN NoError
    ELSE [context |-> context,
          msg |-> MessageFor(resp.status) \o Diagnostic(resp.body)]

\* ------------------------------------------------- requests of the client
\* getItem, getItemChildren, getFullText and downloadAttachment on the item
\* with this key.
ItemRequest(key) ==
    [method |-> "GET", path |-> "/items/" \o key, headers |-> NoHeaders,
     body |-> <<>>, endpoint |-> "item", key |-> key]

ChildrenRequest(key) ==
    [method |-> "GET", path |-> "/items/" \o key \o "/children",
     headers |-> NoHeaders, body |-> <<>>, endpoint |-> "children", key |-> key]

FullTextRequest(key) ==
    [method |-> "GET", path |-> "/items/" \o key \o "/fulltext",
     headers |-> NoHeaders, body |-> <<>>, endpoint |-> "fulltext", key |-> key]

DownloadRequest(key) ==
    [method |-> "GET", path |-> "/items/" \o key \o "/file",
     headers |-> NoHeaders, body |-> <<>>, endpoint |-> "file", key |-> key]

\* What a request asks for: its endpoint, or its method on the older ones.
Endpoint(req) == IF "endpoint" \in DOMAIN req THEN req.endpoint ELSE req.method

\* The context throwOnError is given: `getItem(${itemKey})` and the like.
Context(method, key) == method \o "(" \o key \o ")"

\* items.filter((i) => i.data.itemType === "attachment")
IsAttachment(i) == i.itemType = "attachment"
AttachmentsOnly(items) == SelectSeq(items, IsAttachment)

\* ------------------------------------------------- the local file system
\* join(ZOTERO_DATA_DIR, "storage", key, name)
StoragePath(key, name) == env.dataDir \o "/storage/" \o key \o "/" \o name

FT_CACHE == ".zotero-ft-cache"

\* existsSync(path); statSync(path) and readFileSync(path) without a throw.
\* A path of env.fs is "missing", "ok", or "broken": there, but stat and
\* read fail.
ExistsSync(path) == path \in DOMAIN env.fs /\ env.fs[path] # "missing"

\* Mutant: statSync succeeds on every path.
StatSucceeds_always(path) == TRUE

StatSucceeds(path) == path \in DOMAIN env.fs /\ env.fs[path] = "ok"
ReadSucceeds(path) == path \in DOMAIN env.fs /\ env.fs[path] = "ok"

\* The error of a failing readFileSync, and the content it reads otherwise.
FsError == [context |-> "", msg |-> <<"EACCES: permission denied">>]
FileContent(path) == "content of " \o path

\* Mutant: forceRemote is not looked at.
LocalAllowed_always(args) == env.dataDir # ""

\* !forceRemote && ZOTERO_DATA_DIR
LocalAllowed(args) == ~args.forceRemote /\ env.dataDir # ""

ListCollectionsRequest ==
    [method |-> "GET", path |-> "/collections", headers |-> NoHeaders, body |-> <<>>]

\* params?.limit ?? 25 and params?.offset ?? 0
Limit(args) == IF "limit" \in DOMAIN args THEN args.limit ELSE DEFAULT_LIMIT
Offset(args) == IF "offset" \in DOMAIN args THEN args.offset ELSE DEFAULT_OFFSET

\* The list requests with the page asked for.
ListCollectionsRequestFor(args) ==
    [query |-> [limit |-> Limit(args), start |-> Offset(args), format |-> "json"]]
    @@ ListCollectionsRequest

SearchItemsRequest(args) ==
    [method |-> "GET", path |-> "/items", headers |-> NoHeaders, body |-> <<>>,
     query |-> [q |-> args.query, qmode |-> "titleCreatorYear",
                sort |-> "dateModified", direction |-> "desc",
                limit |-> Limit(args), start |-> Offset(args), format |-> "json"]]

\* escapeHtml of utils.ts, on a sequence of characters.
EscapeChar(ch) ==
    CASE ch = "&" -> <<"&", "a", "m", "p", ";">>
      [] ch = "<" -> <<"&", "l", "t", ";">>
      [] ch = ">" -> <<"&", "g", "t", ";">>
      [] ch = "\"" -> <<"&", "q", "u", "o", "t", ";">>
      [] OTHER -> <<ch>>

RECURSIVE EscapeHtml(_)
EscapeHtml(text) ==
    IF text = <<>> THEN <<>> ELSE EscapeChar(Head(text)) \o EscapeHtml(Tail(text))

\* randomUUID(): a value no other call of the run gets; id numbers the calls.
RandomUUID(id) == <<"u", "u", "i", "d", "-">> \o NumberToString(id)

WriteToken == "Zotero-Write-Token"

\* createCollection: the POST with its write token; the body names the
\* parent only when one is given.
CreateCollectionRequest(c) ==
    [method |-> "POST", path |-> "/collections",
     headers |-> OneHeader(WriteToken, RandomUUID(c.call)),
     body |-> << IF c.args.parentCollection # ""
                 THEN [name |-> c.args.name,
                       parentCollection |-> c.args.parentCollection]
                 ELSE [name |-> c.args.name] >>]

\* The note the create_note handler hands to createNote: the content, or the
\* template around the escaped title and the content.
NoteHtml(args) ==
    IF args.useTemplate
    THEN <<"<h1>">> \o EscapeHtml(args.title) \o <<"</h1>", "DATE">>
         \o args.content \o <<"DATE", "</div>">>
    ELSE args.content

\* createNote: the POST with its write token.
CreateNoteRequest(c) ==
    [method |-> "POST", path |-> "/items",
     headers |-> OneHeader(WriteToken, RandomUUID(c.call)),
     body |-> << [itemType |-> "note", note |-> NoteHtml(c.args),
                  tags |-> <<>>, collections |-> <<>>] >>]

GetItemRequest ==
    [method |-> "GET", path |-> "/items/ITEM", headers |-> NoHeaders, body |-> <<>>]

\* Mutant: the collections the item is in are left out.
CurrentCollections_none(item) == <<>>

\* const currentCollections = item.data.collections ?? []
CurrentCollections(item) ==
    IF "collections" \in DOMAIN item THEN item.collections ELSE <<>>

\* Mutant: the membership test is missing.
AlreadyInCollection_never(item, target) == FALSE

\* currentCollections.includes(collectionKey)
AlreadyInCollection(item, target) ==
    \E k \in 1..Len(CurrentCollections(item)) :
        CurrentCollections(item)[k] = target

\* Mutant: the version of the item the handler fetched before the call.
PatchVersion_stale(c, item) == NumberToString(c.handlerItem.version)

\* The If-Unmodified-Since-Version value of the PATCH: String(item.version),
\* item being the one addItemToCollection fetched; c holds the caller's locals.
PatchVersion(c, item) == NumberToString(item.version)

\* Mutant: the list of the item the handler fetched before the call.
PatchBody_stale(c, item) == Append(c.handlerItem.collections, c.target)

\* The collections of the PATCH body: [...currentCollections, collectionKey].
PatchBody(c, item) == Append(CurrentCollections(item), c.target)

PatchRequest(c, item) ==
    [method |-> "PATCH", path |-> "/items/ITEM",
     headers |-> OneHeader(IfUnmodified, PatchVersion(c, item)),
     body |-> PatchBody(c, item)]

\* ---------------------------------------------- operations, step by step
\* What an operation does with the response rateLimitedFetch hands it:
\* it finishes (returns or throws), or it goes on to its next request.
\* The tool handlers of index.ts; every other operation is a method of the
\* client called directly.
Handlers ==
    {"list_collections", "create_collection", "create_note",
     "add_note_to_collection", "get_item", "search_items",
     "get_item_attachments", "get_item_fulltext", "read_attachment"}

\* Mutant: the catch block drops the message.
ErrorText_bare(err) == <<"Error">>

\* The text of a handler's catch block: `Error: ${error.message}`.
ErrorText(err) ==
    IF err.context = "" THEN <<"Error: ", err.msg>>
    ELSE <<"Error: ", err.context, ": ", err.msg>>

NoResult == [kind |-> "none"]

Finish(c, err, okReply) ==
    LET handler == c.op \in Handlers
    IN  [done |-> TRUE,
         outcome |-> IF err # NoError /\ ~handler THEN "threw" ELSE "returned",
         error |-> err,
         reply |-> IF handler
                   THEN (IF err # NoError THEN "isError" ELSE okReply)
                   ELSE "",
         text |-> IF handler /\ err # NoError THEN ErrorText(err) ELSE <<>>,
         result |-> NoResult,
         next |-> c]

\* The operation ends without a failure of the client: a method returns
\* result, a handler replies with text (okReply is "isError" when the reply
\* has isError set).
FinishWith(c, okReply, text, result) ==
    [Finish(c, NoError, okReply) EXCEPT !.text = text, !.result = result]

GoOn(c) == [done |-> FALSE, outcome |-> "", error |-> NoError, reply |-> "",
            text |-> <<>>, result |-> NoResult, next |-> c]

\* Mutant: the total is always the number of items returned.
TotalResults_count(resp) == Len(resp.body)

\* parseInt(response.headers.get("Total-Results") ?? String(items.length), 10)
TotalResults(resp) ==
    ParseInt(IF HasHeader(resp.headers, "Total-Results")
             THEN resp.headers["Total-Results"]
             ELSE NumberToString(Len(resp.body)))

\* { items, totalResults, offset, limit }
Page(c, resp) ==
    [kind |-> "page", items |-> resp.body, totalResults |-> TotalResults(resp),
     offset |-> Offset(c.args), limit |-> Limit(c.args)]

\* The text of the list_collections reply and the header line of the
\* search_items reply.
ListText(page) ==
    <<[collections |-> page.items, totalResults |-> page.totalResults,
       offset |-> page.offset, limit |-> page.limit]>>
SearchText(page) ==
    <<[found |-> page.totalResults, showStart |-> page.offset + 1,
       showEnd |-> page.offset + Len(page.items), items |-> page.items]>>

\* listCollections after its fetch.
ListCollectionsThen(c, resp) ==
    LET err == ThrowOnError(resp, "listCollections")
    IN  IF err # NoError THEN Finish(c, err, "")
        ELSE FinishWith(c, "listed", ListText(Page(c, resp)), Page(c, resp))

\* searchItems after its fetch.
SearchItemsThen(c, resp) ==
    LET err == ThrowOnError(resp, "searchItems")
    IN  IF err # NoError THEN Finish(c, err, "")
        ELSE FinishWith(c, "found", SearchText(Page(c, resp)), Page(c, resp))

\* Object.values(result.failed).map((f) => f.message).join("; ")
RECURSIVE Reasons(_)
Reasons(failed) ==
    IF failed = <<>> THEN <<>>
    ELSE IF Len(failed) = 1 THEN failed[1].message
    ELSE failed[1].message \o <<";", " ">> \o Reasons(Tail(failed))

\* Mutant: a write counts as failed only when nothing succeeded.
HasFailed_noSuccess(result) == Len(result.success) = 0

\* Object.keys(result.failed).length > 0
HasFailed(result) == Len(result.failed) > 0

\* Object.values(result.success)[0]
CreatedKey(result) ==
    IF Len(result.success) > 0 THEN result.success[1] ELSE "undefined"

\* createCollection and createNote after their POST; the create_collection
\* and create_note handlers after the method returned.
CreateThen(c, resp) ==
    LET err    == ThrowOnError(resp, c.stage)
        result == resp.body
        what   == IF c.stage = "createCollection" THEN "collection" ELSE "note"
    IN  IF err # NoError THEN Finish(c, err, "")
        ELSE IF c.op \notin Handlers THEN FinishWith(c, "", <<>>, result)
        ELSE IF HasFailed(result)
        THEN FinishWith(c, "isError",
                        <<"Failed to create " \o what \o ": ">> \o Reasons(result.failed),
                        result)
        ELSE FinishWith(c, "created",
                        <<[message |-> what \o " created successfully",
                           key |-> CreatedKey(result)]>>,
                        result)

\* ------------------------------------------------ the attachment handlers
\* get_item after getItem.
GetItemThen(c, resp) ==
    LET err == ThrowOnError(resp, Context("getItem", c.args.itemKey))
    IN  IF err # NoError THEN Finish(c, err, "")
        ELSE FinishWith(c, "item", <<resp.body>>, NoResult)

\* Mutant: an attachment without a filename is probed like any other.
HasFilename_always(child) == TRUE

\* `filename` as a condition: the empty string is falsy.
HasFilename(child) == child.filename # ""

\* One entry of the get_item_attachments reply: the local path when the file
\* is there, the size when stat succeeds.
AttachmentInfo(child, args) ==
    LET info == [key |-> child.key,
                 title |-> IF child.title # "" THEN child.title ELSE child.filename,
                 contentType |-> child.contentType,
                 filename |-> child.filename, linkMode |-> child.linkMode]
        path == StoragePath(child.key, child.filename)
    IN  IF LocalAllowed(args) /\ HasFilename(child) /\ ExistsSync(path)
        THEN IF StatSucceeds(path)
             THEN [localPath |-> path, fileSize |-> "size of " \o path] @@ info
             ELSE [localPath |-> path] @@ info
        ELSE info

\* get_item_attachments after getItemChildren(itemKey, true).
AttachmentsThen(c, resp) ==
    LET err      == ThrowOnError(resp, Context("getItemChildren", c.args.itemKey))
        children == AttachmentsOnly(resp.body)
    IN  IF err # NoError THEN Finish(c, err, "")
        ELSE IF children = <<>>
        THEN FinishWith(c, "none", <<[attachments |-> <<>>]>>, NoResult)
        ELSE FinishWith(c, "listed",
                        <<[attachments |->
                             [k \in 1..Len(children) |->
                                AttachmentInfo(children[k], c.args)]]>>,
                        NoResult)

\* children.find((c) => c.data.contentType === "application/pdf")
PdfChildren(children) ==
    { k \in 1..Len(children) : children[k].contentType = "application/pdf" }
FirstPdf(children) ==
    CHOOSE k \in PdfChildren(children) : \A j \in PdfChildren(children) : k <= j

\* Mutant: the first child is taken whatever its content type.
TargetChild_first(children) == children[1]

\* pdfChild ?? children[0]: the child a parent key resolves to.
TargetChild(children) ==
    IF PdfChildren(children) # {} THEN children[FirstPdf(children)]
    ELSE children[1]

AsAttachment(item) ==
    [key |-> item.key, filename |-> item.filename, contentType |-> item.contentType]

\* get_item_fulltext from the local probe on; c.att.key is attachmentKey.
FullTextLocal(c) ==
    LET path == StoragePath(c.att.key, FT_CACHE)
    IN  IF LocalAllowed(c.args) /\ ExistsSync(path)
        THEN IF ReadSucceeds(path)
             THEN FinishWith(c, "local",
                             <<[attachmentKey |-> c.att.key, source |-> "local",
                                content |-> FileContent(path)]>>,
                             NoResult)
             ELSE Finish(c, FsError, "")
        ELSE GoOn([c EXCEPT !.stage = "getFullText",
                            !.req = FullTextRequest(c.att.key)])

\* get_item_fulltext after getItem.
FullTextItemThen(c, resp) ==
    LET err == ThrowOnError(resp, Context("getItem", c.args.itemKey))
    IN  IF err # NoError THEN Finish(c, err, "")
        ELSE IF ~IsAttachment(resp.body)
        THEN GoOn([c EXCEPT !.stage = "fulltext.getItemChildren",
                            !.req = ChildrenRequest(c.args.itemKey)])
        ELSE FullTextLocal([c EXCEPT !.att.key = c.args.itemKey])

\* get_item_fulltext after getItemChildren: with no child the original key
\* is kept.
FullTextChildrenThen(c, resp) ==
    LET err      == ThrowOnError(resp, Context("getItemChildren", c.args.itemKey))
        children == AttachmentsOnly(resp.body)
    IN  IF err # NoError THEN Finish(c, err, "")
        ELSE FullTextLocal([c EXCEPT !.att.key =
                                IF children # <<>> THEN TargetChild(children).key
                                ELSE c.args.itemKey])

\* getFullText: null when the response it is handed is 404, the text bundle
\* when it is a success, the failure of throwOnError otherwise.
NullValue == [kind |-> "null"]

GetFullText(resp, key) ==
    IF resp.status = 404
    THEN [error |-> NoError, value |-> NullValue]
    ELSE [error |-> ThrowOnError(resp, Context("getFullText", key)),
          value |-> resp.body]

\* !fulltext
NoFullText(fulltext) == fulltext = NullValue

\* getFullText after its fetch, and get_item_fulltext after getFullText.
FullTextRemoteThen(c, resp) ==
    LET r == GetFullText(resp, c.att.key)
    IN  IF r.error # NoError THEN Finish(c, r.error, "")
        ELSE IF c.op \notin Handlers THEN FinishWith(c, "", <<>>, r.value)
        ELSE IF NoFullText(r.value)
        THEN FinishWith(c, "none",
                        <<[attachmentKey |-> c.att.key,
                           message |-> "No full-text content available"]>>,
                        NoResult)
        ELSE FinishWith(c, "api",
                        <<[attachmentKey |-> c.att.key, source |-> "api",
                           content |-> r.value.content,
                           indexedPages |-> r.value.indexedPages,
                           totalPages |-> r.value.totalPages]>>,
                        NoResult)

\* downloadAttachment: the content type, the file name of the disposition
\* header or <key>.bin, and the bytes.
DownloadAttachment(resp, key) ==
    [error |-> ThrowOnError(resp, Context("downloadAttachment", key)),
     value |-> [kind |-> "download",
                contentType |-> IF HasHeader(resp.headers, "Content-Type")
                                THEN resp.headers["Content-Type"]
                                ELSE "application/octet-stream",
                filename |-> IF HasHeader(resp.headers, "Content-Disposition")
                             THEN resp.headers["Content-Disposition"]
                             ELSE key \o ".bin",
                data |-> resp.body]]

\* downloadAttachment after its fetch, and read_attachment after it.
ReadRemoteThen(c, resp) ==
    LET r == DownloadAttachment(resp, c.att.key)
    IN  IF r.error # NoError THEN Finish(c, r.error, "")
        ELSE IF c.op \notin Handlers THEN FinishWith(c, "", <<>>, r.value)
        ELSE FinishWith(c, "api",
                        <<[attachmentKey |-> c.att.key, source |-> "api",
                           contentType |-> r.value.contentType,
                           filename |-> r.value.filename,
                           data |-> r.value.data]>>,
                        NoResult)

\* read_attachment from the local probe on.
ReadLocal(c) ==
    LET path == StoragePath(c.att.key, c.att.filename)
    IN  IF LocalAllowed(c.args) /\ c.att.filename # "" /\ ExistsSync(path)
        THEN FinishWith(c, "local",
                        <<[attachmentKey |-> c.att.key, source |-> "local",
                           localPath |-> path, contentType |-> c.att.contentType,
                           filename |-> c.att.filename]>>,
                        NoResult)
        ELSE GoOn([c EXCEPT !.stage = "downloadAttachment",
                            !.req = DownloadRequest(c.att.key)])

\* read_attachment after getItem.
ReadItemThen(c, resp) ==
    LET err == ThrowOnError(resp, Context("getItem", c.args.itemKey))
    IN  IF err # NoError THEN Finish(c, err, "")
        ELSE IF IsAttachment(resp.body)
        THEN ReadLocal([c EXCEPT !.att = AsAttachment(resp.body)])
        ELSE GoOn([c EXCEPT !.stage = "read.getItemChildren",
                            !.req = ChildrenRequest(c.args.itemKey)])

\* read_attachment after getItemChildren: without a child it ends there.
ReadChildrenThen(c, resp) ==
    LET err      == ThrowOnError(resp, Context("getItemChildren", c.args.itemKey))
        children == AttachmentsOnly(resp.body)
    IN  IF err # NoError THEN Finish(c, err, "")
        ELSE IF children = <<>>
        THEN FinishWith(c, "none", <<[message |-> "No attachments found"]>>,
                        NoResult)
        ELSE ReadLocal([c EXCEPT !.att = AsAttachment(TargetChild(children))])

\* The add_note_to_collection handler after its own getItem.
HandlerThen(c, resp) ==
    LET err == ThrowOnError(resp, "getItem(ITEM)")
    IN  IF err # NoError THEN Finish(c, err, "")
        ELSE IF AlreadyInCollection(resp.item, c.target)
        THEN Finish(c, NoError, "already")
        ELSE GoOn([c EXCEPT !.stage = "addItemToCollection.getItem",
                            !.req = GetItemRequest,
                            !.handlerItem = resp.item])

\* addItemToCollection after its getItem.
AddItemThen(c, resp) ==
    LET err == ThrowOnError(resp, "getItem(ITEM)")
    IN  IF err # NoError THEN Finish(c, err, "")
        ELSE IF AlreadyInCollection(resp.item, c.target)
        THEN Finish(c, NoError, "added")
        ELSE GoOn([c EXCEPT !.stage = "addItemToCollection.patch",
                            !.item = resp.item,
                            !.req = PatchRequest(c, resp.item)])

\* Mutant: the answer to the PATCH is not looked at.
PatchThen_unchecked(c, resp) == Finish(c, NoError, "added")

\* addItemToCollection after its PATCH.
PatchThen(c, resp) ==
    Finish(c, ThrowOnError(resp, "addItemToCollection(ITEM)"), "added")

ContinueOp(c, resp) ==
    CASE c.stage = "listCollections" -> ListCollectionsThen(c, resp)
      [] c.stage = "searchItems" -> SearchItemsThen(c, resp)
      [] c.stage \in {"createCollection", "createNote"} -> CreateThen(c, resp)
      [] c.stage = "get_item.getItem" -> GetItemThen(c, resp)
      [] c.stage = "attachments.getItemChildren" -> AttachmentsThen(c, resp)
      [] c.stage = "fulltext.getItem" -> FullTextItemThen(c, resp)
      [] c.stage = "fulltext.getItemChildren" -> FullTextChildrenThen(c, resp)
      [] c.stage = "getFullText" -> FullTextRemoteThen(c, resp)
      [] c.stage = "read.getItem" -> ReadItemThen(c, resp)
      [] c.stage = "read.getItemChildren" -> ReadChildrenThen(c, resp)
      [] c.stage = "downloadAttachment" -> ReadRemoteThen(c, resp)
      [] c.stage = "handler.getItem" -> HandlerThen(c, resp)
      [] c.stage = "addItemToCollection.getItem" -> AddItemThen(c, resp)
      [] c.stage = "addItemToCollection.patch" -> PatchThen(c, resp)

\* The first request of an operation.
StartOp(op, target, id) ==
    [NoCall EXCEPT
        !.op = op, !.call = id, !.target = target,
        !.stage = CASE op = "listCollections" -> "listCollections"
                    [] op = "addItemToCollection" -> "addItemToCollection.getItem"
                    [] op = "add_note_to_collection" -> "handler.getItem",
        !.req = IF op = "listCollections" THEN ListCollectionsRequest
                ELSE GetItemRequest]

\* The operations that take a record of arguments, and their first request.
ToolOps ==
    {"list_collections", "search_items", "searchItems",
     "create_collection", "createCollection", "create_note", "createNote",
     "get_item", "get_item_attachments", "get_item_fulltext", "read_attachment",
     "getFullText", "downloadAttachment"}

ToolStage(op) ==
    CASE op = "list_collections" -> "listCollections"
      [] op \in {"search_items", "searchItems"} -> "searchItems"
      [] op \in {"create_collection", "createCollection"} -> "createCollection"
      [] op \in {"create_note", "createNote"} -> "createNote"
      [] op = "get_item" -> "get_item.getItem"
      [] op = "get_item_attachments" -> "attachments.getItemChildren"
      [] op = "get_item_fulltext" -> "fulltext.getItem"
      [] op = "read_attachment" -> "read.getItem"
      [] op = "getFullText" -> "getFullText"
      [] op = "downloadAttachment" -> "downloadAttachment"

StartTool(op, args, id) ==
    [NoCall EXCEPT
        !.op = op, !.call = id, !.args = args,
        !.att = IF op \in {"getFullText", "downloadAttachment"}
                THEN [NoAttachment EXCEPT !.key = args.itemKey]
                ELSE NoAttachment,
        !.stage = ToolStage(op),
        !.req = LET c == [NoCall EXCEPT !.call = id, !.args = args]
                IN  CASE ToolStage(op) = "listCollections" ->
                           ListCollectionsRequestFor(args)
                      [] ToolStage(op) = "searchItems" -> SearchItemsRequest(args)
                      [] ToolStage(op) = "createCollection" ->
                           CreateCollectionRequest(c)
                      [] ToolStage(op) = "createNote" -> CreateNoteRequest(c)
                      [] ToolStage(op) = "attachments.getItemChildren" ->
                           ChildrenRequest(args.itemKey)
                      [] ToolStage(op) = "getFullText" ->
                           FullTextRequest(args.itemKey)
                      [] ToolStage(op) = "downloadAttachment" ->
                           DownloadRequest(args.itemKey)
                      [] OTHER -> ItemRequest(args.itemKey)]

\* ------------------------------------------------------------ the server
\* What the server may answer on the merits.  A list request gets any of the
\* pages of env.pages with any of the Total-Results headers of env.totals, a
\* POST any of the write responses of env.writes.
NoContent == [status |-> 200, headers |-> NoHeaders, body |-> <<>>]

ListPaths == {"/collections", "/items"}

\* The answer to a request about the item req.key of the library env.library:
\* the item, its children, its indexed text or its file, or 404.
NotFound == [status |-> 404, headers |-> NoHeaders, body |-> <<>>]

Found(body) == [status |-> 200, headers |-> NoHeaders, body |-> body]

LibraryContent(lib, req) ==
    CASE req.endpoint = "item" ->
           IF req.key \in DOMAIN lib.items THEN Found(lib.items[req.key])
           ELSE NotFound
      [] req.endpoint = "children" ->
           IF req.key \in DOMAIN lib.items
           THEN Found([k \in 1..Len(lib.children[req.key]) |->
                          lib.items[lib.children[req.key][k]]])
           ELSE NotFound
      [] req.endpoint = "fulltext" ->
           IF req.key \in DOMAIN lib.fulltext THEN Found(lib.fulltext[req.key])
           ELSE NotFound
      [] req.endpoint = "file" ->
           IF req.key \in DOMAIN lib.files
           THEN [status |-> 200, headers |-> lib.files[req.key],
                 body |-> "bytes of " \o req.key]
           ELSE NotFound

ServerContent(req) ==
    CASE "endpoint" \in DOMAIN req -> {LibraryContent(env.library, req)}
      [] req.method = "POST" ->
           { [status |-> 200, headers |-> NoHeaders, body |-> w] : w \in env.writes }
      [] req.method = "GET" /\ req.path \in ListPaths ->
           { [status |-> 200, headers |-> t, body |-> items] :
               t \in env.totals, items \in env.pages }
      [] OTHER -> {NoContent}

\* The body of a response that fails the request: any of env.errorBodies.
ErrorContent ==
    { [status |-> 0, headers |-> NoHeaders, body |-> b] : b \in env.errorBodies }

Contents(req, fault) == IF fault # 0 THEN ErrorContent ELSE ServerContent(req)

\* The write is accepted only when it names the version the server holds.
PreconditionHolds(srv, req) ==
    /\ HasHeader(req.headers, IfUnmodified)
    /\ ParseInt(req.headers[IfUnmodified]) = srv.version

\* The server's answer to req and the item afterwards.  fault is 0 when the
\* server answers on the merits, or the status it fails the request with.
\* content is what the server puts in a successful answer to a request
\* other than those on the item ITEM: its body and the headers about it.
Answer(srv, req, fault, hdrs, content) ==
    IF fault # 0
    THEN [resp |-> [status |-> fault, headers |-> hdrs, item |-> NoItem,
                    body |-> content.body],
          server |-> srv]
    ELSE IF req.method = "PATCH"
    THEN IF PreconditionHolds(srv, req)
         THEN [resp |-> [status |-> 204, headers |-> hdrs, item |-> NoItem,
                         body |-> <<>>],
               server |-> [version |-> srv.version + 1, collections |-> req.body]]
         ELSE [resp |-> [status |-> 412, headers |-> hdrs, item |-> NoItem,
                         body |-> <<>>],
               server |-> srv]
    ELSE IF req.path = "/items/ITEM"
    THEN [resp |-> [status |-> 200, headers |-> hdrs, item |-> srv,
                    body |-> <<>>],
          server |-> srv]
    ELSE [resp |-> [status |-> content.status,
                    headers |-> content.headers @@ hdrs,
                    item |-> NoItem, body |-> content.body],
          server |-> srv]

\* ---------------------------------------------------------------- history
\* The history variables record what was sent, received and returned.  They
\* are computed from the requests and responses themselves, not from the
\* caller's locals.
\* The ZoteroConfig the client is constructed with.  index.ts passes apiKey,
\* libraryId, libraryType, isLocal and baseUrl; baseUrl is undefined unless
\* the local API is used.
Undefined == [undefined |-> TRUE]
DEFAULT_BASE_URL == "https://api.zotero.org"
LOCAL_BASE_URL == "http://127.0.0.1:23119/api"

Url(stem, slash) == [stem |-> stem, slash |-> slash]

\* (config.baseUrl ?? "https://api.zotero.org").replace(/\/$/, "")
BaseUrl(config) ==
    IF config.baseUrl = Undefined THEN DEFAULT_BASE_URL ELSE config.baseUrl.stem

\* get userPrefix(): `${this.baseUrl}/users/${this.libraryId}`
UserPrefix(config) == BaseUrl(config) \o "/users/" \o config.libraryId

\* headers(extra): the common headers, then ...extra.
Headers(config, extra) ==
    extra @@ ("Zotero-API-Version" :> <<"3">>
              @@ "Zotero-API-Key" :> config.apiKey
              @@ "Content-Type" :> <<"application/json">>)

\* The request as fetch receives it: `${this.userPrefix}${path}` and
\* this.headers(extra).
Wire(config, req) ==
    [method |-> req.method,
     url |-> <<UserPrefix(config), req.path>>,
     headers |-> Headers(config, req.headers)]

NoWire == [method |-> "", url |-> <<>>, headers |-> NoHeaders]

NoObs == [sends |-> 0, sleeps |-> 0, dueAt |-> 0, first |-> 0, second |-> 0, respAt |-> 0,
          retryHeaders |-> NoHeaders, gets |-> 0, patches |-> 0, getCalls |-> 0,
          got |-> NoItem, containedAt |-> "", held |-> FALSE, saw412 |-> FALSE,
          endpoints |-> <<>>, paths |-> <<>>, wire |-> NoWire]
NoGov == [call |-> 0, stage |-> "", sends |-> 0, sleeps |-> 0,
          cooldown |-> FALSE, first |-> 0, second |-> 0,
          handed |-> 0]
NoPatch == [call |-> 0, attempt |-> 0, headers |-> NoHeaders, body |-> <<>>,
            got |-> NoItem, target |-> ""]
NoDone == [call |-> 0, op |-> "", target |-> "", stage |-> "", handed |-> 0,
           outcome |-> "", error |-> NoError, reply |-> "", gets |-> 0,
           patches |-> 0, getCalls |-> 0, containedAt |-> "", got |-> NoItem,
           held |-> FALSE,
           text |-> <<>>, result |-> NoResult, args |-> NoArgs,
           headers |-> NoHeaders, body |-> <<>>, endpoints |-> <<>>,
           paths |-> <<>>, att |-> NoAttachment, sends |-> 0, first |-> 0]
NoSend == [prev |-> 0, last |-> 0, cooldownLeft |-> 0, owedAt |-> 0,
           rejectedAt |-> 0]
NoFirstSend == [call |-> 0, t |-> 0, owed |-> 0]

Hist == [sent |-> sent, owed |-> owed, firstSend |-> firstSend, obs |-> obs,
         gov |-> gov, retried |-> retried, patched |-> patched, done |-> done,
         mutating |-> mutating, accepted |-> accepted]

SetHist(h) ==
    \E v \in {h} :
        /\ sent' = v.sent
        /\ owed' = v.owed
        /\ firstSend' = v.firstSend
        /\ obs' = v.obs
        /\ gov' = v.gov
        /\ retried' = v.retried
        /\ patched' = v.patched
        /\ done' = v.done
        /\ mutating' = v.mutating
        /\ accepted' = v.accepted

Max(a, b) == IF a >= b THEN a ELSE b
Count(b) == IF b THEN 1 ELSE 0
Member(seq, x) == \E k \in 1..Len(seq) : seq[k] = x

FirstStage(op) ==
    CASE op = "listCollections" -> "listCollections"
      [] op = "addItemToCollection" -> "addItemToCollection.getItem"
      [] op = "add_note_to_collection" -> "handler.getItem"
      [] op \in ToolOps -> ToolStage(op)

\* An operation begins: the records of the caller's previous one are dropped.
HStart(h, p) ==
    [h EXCEPT !.gov[p] = NoGov, !.done[p] = NoDone, !.mutating[p] = <<>>]

\* A rateLimitedFetch call begins; bu and lrt are the instance's
\* backoffUntil and lastRequestTime at that moment.  Where the
\* specification counts the sleeps it also notes the latest of the three
\* times the call has to reach before its request may go out.
HEnter(h, p, c, bu, lrt) ==
    [h EXCEPT !.obs[p] = [@ EXCEPT !.sends = 0, !.sleeps = 0, !.first = 0,
                                   !.dueAt = IF env.countSleeps
                                             THEN Max(now, Max(lrt + MIN_INTERVAL_MS,
                                                               IF bu = NaN THEN 0 ELSE bu))
                                             ELSE 0,
                                   !.second = 0,
                                   !.respAt = 0, !.retryHeaders = NoHeaders,
                                   !.getCalls = @ + Count(c.req.method = "GET")]]

\* A sleep of the caller's rateLimitedFetch call ends; the sleeps are
\* counted where the specification asks for it.
HWake(h, p) ==
    IF env.countSleeps THEN [h EXCEPT !.obs[p].sleeps = @ + 1] ELSE h

\* The request of c goes out; bu is the instance's backoffUntil.
HSend(h, p, c, attempt, bu) ==
    LET i == client[p]
        o == h.obs[p]
    IN  [h EXCEPT
          !.sent[i] = [prev |-> @.last, last |-> now,
                       cooldownLeft |-> IF NumGt(bu, now) THEN bu - now ELSE 0,
                       owedAt |-> h.owed[i], rejectedAt |-> @.rejectedAt],
          !.firstSend[i] = IF attempt = 1 /\ c.stage = FirstStage(c.op)
                           THEN [call |-> c.call, t |-> now, owed |-> h.owed[i]]
                           ELSE @,
          !.obs[p] = [@ EXCEPT !.sends = @ + 1,
                               !.gets = @ + Count(c.req.method = "GET"),
                               !.endpoints = Append(@, Endpoint(c.req)),
                               !.paths = Append(@, c.req.path),
                               !.wire = Wire(env.config, c.req),
                               !.patches = @ + Count(c.req.method = "PATCH")],
          !.retried = IF attempt = 2
                      THEN @ \cup {[waited |-> now - o.respAt,
                                    headers |-> o.retryHeaders]}
                      ELSE @,
          !.mutating[p] = IF c.req.method \in {"POST", "PATCH"}
                          THEN Append(@, [call |-> c.call, attempt |-> attempt,
                                          method |-> c.req.method,
                                          path |-> c.req.path,
                                          headers |-> c.req.headers,
                                          body |-> c.req.body])
                          ELSE @,
          !.patched[p] = IF c.req.method = "PATCH"
                         THEN [call |-> c.call, attempt |-> attempt,
                               headers |-> c.req.headers, body |-> c.req.body,
                               got |-> o.got, target |-> c.target]
                         ELSE @]

\* The response resp arrives; srv is the item as the request found it.
HRecv(h, p, c, attempt, resp, srv, after) ==
    LET i == client[p]
        o == h.obs[p]
        n == IF HasHeader(resp.headers, "Backoff")
             THEN ParseInt(resp.headers["Backoff"]) ELSE NaN
        fetched == c.req = GetItemRequest /\ resp.status = 200
    IN  [h EXCEPT
          !.owed[i] = IF n # NaN THEN Max(@, now + n * MS_PER_SECOND) ELSE @,
          !.obs[p] = [@ EXCEPT
              !.first = IF attempt = 1 THEN resp.status ELSE @,
              !.second = IF attempt = 2 THEN resp.status ELSE @,
              !.respAt = IF attempt = 1 THEN now ELSE @,
              !.retryHeaders = IF attempt = 1 THEN resp.headers ELSE @,
              !.got = IF fetched /\ c.stage = "addItemToCollection.getItem"
                      THEN srv ELSE @,
              !.containedAt = IF fetched /\ @ = "" /\ Member(srv.collections, c.target)
                              THEN c.stage ELSE @,
              !.held = @ \/ (resp.status \in 200..299
                                /\ Member(after.collections, c.target)),
              !.saw412 = @ \/ (c.req.method = "PATCH" /\ resp.status = 412)],
          !.accepted = IF c.req.method = "PATCH" /\ resp.status = 204
                       THEN Append(@, [call |-> c.call, proc |-> p,
                                       headers |-> c.req.headers, pre |-> srv,
                                       got |-> o.got, target |-> c.target,
                                       body |-> c.req.body])
                       ELSE @]

\* The exchange of p's request fails: the latest send of the instance is
\* the send of a rejected request.
HReject(h, p) ==
    [h EXCEPT !.sent[client[p]].rejectedAt = h.sent[client[p]].last]

\* rateLimitedFetch hands resp to the operation.
HDeliver(h, p, c, resp) ==
    LET o == h.obs[p]
    IN  [h EXCEPT !.gov[p] = [call |-> c.call, stage |-> c.stage, sends |-> o.sends,
                              sleeps |-> o.sleeps,
                              cooldown |-> HasHeader(o.retryHeaders, "Backoff"),
                              first |-> o.first, second |-> o.second,
                              handed |-> resp.status]]

\* The headers of a response that are about its content: all but the
\* directives rateLimitedFetch reads.
ContentHeaders(h) ==
    [n \in DOMAIN h \ {"Backoff", "Retry-After"} |-> h[n]]

\* The operation finishes.
HDone(h, p, c, plan, resp) ==
    LET o == h.obs[p]
    IN  [h EXCEPT !.done[p] = [call |-> c.call, op |-> c.op, target |-> c.target,
                               stage |-> c.stage, handed |-> resp.status,
                               outcome |-> plan.outcome, error |-> plan.error,
                               reply |-> plan.reply, gets |-> o.gets,
                               patches |-> o.patches, getCalls |-> o.getCalls,
                               containedAt |-> o.containedAt, got |-> o.got,
                               held |-> o.held,
                               text |-> plan.text, result |-> plan.result,
                               args |-> c.args,
                               headers |-> ContentHeaders(resp.headers),
                               body |-> resp.body, endpoints |-> o.endpoints,
                               paths |-> o.paths, sends |-> o.sends,
                               first |-> o.first,
                               att |-> plan.next.att],
                  !.obs[p] = NoObs]

\* ---------------------------------------------------------------- actions
Waiting(p) == pc[p] \in {"waitBackoff", "waitInterval", "waitRetry"}

\* Mutant: the promise of sleep never resolves.
Due_never(p) == FALSE

\* sleep(ms) resolves when its setTimeout fires.
Due(p) == now >= timer[p]
InFlight(p) == pc[p] \in {"fetch", "fetchRetry"}

\* Mutant: the two fields are static, one pair for every instance.
RateStateOf_static(p) == "c1"

\* The instance whose lastRequestTime and backoffUntil the calls of p read
\* and write: they are fields of the client the caller uses.
RateStateOf(p) == client[p]

\* The caller enters rateLimitedFetch with the request of c and runs to the
\* first suspension: a sleep, or the pending fetch.  bu is the instance's
\* backoffUntil at that moment, h the history up to it.
Proceed(p, c, bu, h) ==
    LET i  == RateStateOf(p)
        g  == EnterGovernor(bu, lastRequestTime[i], now)
        h1 == HEnter(h, p, c, bu, lastRequestTime[i])
    IN  /\ pc' = [pc EXCEPT ![p] = g.pc]
        /\ timer' = [timer EXCEPT ![p] = g.timer]
        /\ lastRequestTime' = [lastRequestTime EXCEPT ![i] = g.lrt]
        /\ cur' = [cur EXCEPT ![p] = c]
        /\ SetHist(IF g.sent THEN HSend(h1, p, c, 1, bu) ELSE h1)

\* The operation receives the response resp from rateLimitedFetch.
Deliver(p, resp, bu, h) ==
    \E plan \in {ContinueOp(cur[p], resp)} :
    \E h1 \in {HDeliver(h, p, cur[p], resp)} :
        IF plan.done
        THEN /\ pc' = [pc EXCEPT ![p] = "idle"]
             /\ timer' = [timer EXCEPT ![p] = 0]
             /\ cur' = [cur EXCEPT ![p] = NoCall]
             /\ SetHist(HDone(h1, p, cur[p], plan, resp))
             /\ UNCHANGED lastRequestTime
        ELSE Proceed(p, plan.next, bu, h1)

\* A caller invokes an operation of its client.
Invoke(p) ==
    /\ pc[p] = "idle"
    /\ p \in env.callers
    /\ ncalls < MaxCalls
    /\ \E op \in env.ops :
         IF op \in ToolOps
         THEN \E args \in env.args :
                Proceed(p, StartTool(op, args, ncalls + 1),
                        backoffUntil[RateStateOf(p)], HStart(Hist, p))
         ELSE \E target \in (IF op = "listCollections" THEN {""}
                              ELSE CollectionKeys) :
                Proceed(p, StartOp(op, target, ncalls + 1),
                        backoffUntil[RateStateOf(p)], HStart(Hist, p))
    /\ ncalls' = ncalls + 1
    /\ UNCHANGED <<now, backoffUntil, client, server, env, sse>>

\* The cooldown sleep of rateLimitedFetch ends.
WakeBackoff(p) ==
    /\ pc[p] = "waitBackoff"
    /\ Due(p)
    /\ LET i == RateStateOf(p)
           g == AfterBackoffWait(lastRequestTime[i], now)
       IN  /\ pc' = [pc EXCEPT ![p] = g.pc]
           /\ timer' = [timer EXCEPT ![p] = g.timer]
           /\ lastRequestTime' = [lastRequestTime EXCEPT ![i] = g.lrt]
           /\ SetHist(IF g.sent
                      THEN HSend(HWake(Hist, p), p, cur[p], 1, backoffUntil[i])
                      ELSE HWake(Hist, p))
    /\ UNCHANGED <<now, backoffUntil, cur, client, server, env, sse, ncalls>>

\* The minimum-interval sleep ends: the request is sent.
WakeInterval(p) ==
    /\ pc[p] = "waitInterval"
    /\ Due(p)
    /\ pc' = [pc EXCEPT ![p] = "fetch"]
    /\ timer' = [timer EXCEPT ![p] = 0]
    /\ lastRequestTime' = [lastRequestTime EXCEPT
                             ![RateStateOf(p)] = SendStamp(@, now)]
    /\ SetHist(HSend(HWake(Hist, p), p, cur[p], 1,
                      backoffUntil[RateStateOf(p)]))
    /\ UNCHANGED <<now, backoffUntil, cur, client, server, env, sse, ncalls>>

\* The outcomes on which the server may ask for a cooldown, by attempt.
BackoffOn(attempt) ==
    IF attempt = 2 /\ "backoffOnRetry" \in DOMAIN env
    THEN env.backoffOnRetry ELSE env.backoffOn

\* The headers the server may put on a response with this fault.
ResponseHeaders(fault, attempt) ==
    { b @@ r : b \in (IF fault \in BackoffOn(attempt) THEN env.backoffs
                      ELSE {NoHeaders}),
               r \in (IF fault = 429 THEN env.retryAfters ELSE {NoHeaders}) }

\* fetch rejects: no response arrives, rateLimitedFetch and the method
\* calling it throw the rejection, and the operation ends with it.
Rejected == 0 - 1

FetchFailed == [context |-> "", msg |-> <<"fetch failed">>]

NoResponse == [status |-> 0, headers |-> NoHeaders, item |-> NoItem, body |-> <<>>]

\* Mutant: the method puts its context on the rejection.
Rejection_wrapped(c) == [context |-> c.stage, msg |-> FetchFailed.msg]

\* What the method throws when its fetch rejects: there is no catch between
\* fetch and the caller of the method.
Rejection(c) == FetchFailed

Reject(p) ==
    /\ pc' = [pc EXCEPT ![p] = "idle"]
    /\ timer' = [timer EXCEPT ![p] = 0]
    /\ cur' = [cur EXCEPT ![p] = NoCall]
    /\ SetHist(HDone(HReject(Hist, p), p, cur[p],
                     Finish(cur[p], Rejection(cur[p]), ""), NoResponse))
    /\ UNCHANGED <<lastRequestTime, backoffUntil, server>>

\* The response to the first attempt arrives.
Respond(p) ==
    /\ pc[p] = "fetch"
    /\ \E fault \in env.faults \cup {0} :
       IF fault = Rejected THEN Reject(p) ELSE
       \E hdrs \in ResponseHeaders(fault, 1) :
       \E content \in Contents(cur[p].req, fault) :
         \E i \in {RateStateOf(p)} :
         \E ans \in {Answer(server, cur[p].req, fault, hdrs, content)} :
         \E bu \in {BackoffAfter(backoffUntil[i], ans.resp, now)} :
         \E h \in {HRecv(Hist, p, cur[p], 1, ans.resp, server, ans.server)} :
             /\ server' = ans.server
             /\ backoffUntil' = [backoffUntil EXCEPT ![i] = bu]
             /\ IF ShouldRetry(ans.resp)
                THEN /\ pc' = [pc EXCEPT ![p] = "waitRetry"]
                     /\ timer' = [timer EXCEPT ![p] =
                                     now + SleepDelay(RetryWaitMs(ans.resp))]
                     /\ SetHist(h)
                     /\ UNCHANGED <<lastRequestTime, cur>>
                ELSE Deliver(p, ans.resp, bu, h)
    /\ UNCHANGED <<now, client, env, sse, ncalls>>

\* Mutant: the retry of a request with a write token gets a token of its own.
RetryRequest_fresh(c) ==
    IF HasHeader(c.req.headers, WriteToken)
    THEN [c.req EXCEPT !.headers = OneHeader(WriteToken,
                                             RandomUUID(c.call + MaxCalls)) @@ @]
    ELSE c.req

\* `return fetch(url, init)`: the request of the retry.
RetryRequest(c) == c.req

\* Mutant: the retry leaves lastRequestTime as the first attempt set it.
RetryStamp_kept(lrt, t) == lrt

\* `this.lastRequestTime = Date.now()` before the retry is sent.
RetryStamp(lrt, t) == t

\* The sleep after a 429 ends: the request is sent once more.
WakeRetry(p) ==
    /\ pc[p] = "waitRetry"
    /\ Due(p)
    /\ pc' = [pc EXCEPT ![p] = "fetchRetry"]
    /\ timer' = [timer EXCEPT ![p] = 0]
    /\ lastRequestTime' = [lastRequestTime EXCEPT
                             ![RateStateOf(p)] = RetryStamp(@, now)]
    /\ cur' = [cur EXCEPT ![p].req = RetryRequest(cur[p])]
    /\ SetHist(HSend(HWake(Hist, p), p,
                      [cur[p] EXCEPT !.req = RetryRequest(cur[p])], 2,
                      backoffUntil[RateStateOf(p)]))
    /\ UNCHANGED <<now, backoffUntil, client, server, env, sse, ncalls>>

\* The response to the retry arrives and is returned as it is.
RespondRetry(p) ==
    /\ pc[p] = "fetchRetry"
    /\ \E fault \in env.faults \cup {0} :
       IF fault = Rejected THEN Reject(p) ELSE
       \E hdrs \in ResponseHeaders(fault, 2) :
       \E content \in Contents(cur[p].req, fault) :
         \E ans \in {Answer(server, cur[p].req, fault, hdrs, content)} :
         \E h \in {HRecv(Hist, p, cur[p], 2, ans.resp, server, ans.server)} :
             /\ server' = ans.server
             /\ Deliver(p, ans.resp, backoffUntil[RateStateOf(p)], h)
    /\ UNCHANGED <<now, backoffUntil, client, env, sse, ncalls>>

\* Another client of the library changes the item's collections.
OtherWriter ==
    /\ server.version < MaxVersion
    /\ \E cols \in
          { Append(server.collections, k) :
              k \in { x \in CollectionKeys : ~Member(server.collections, x) } }
          \cup { SubSeq(server.collections, 1, Len(server.collections) - 1) :
                   x \in { y \in {0} : server.collections # <<>> } } :
          server' = [version |-> server.version + 1, collections |-> cols]
    /\ UNCHANGED <<now, lastRequestTime, backoffUntil, pc, timer, cur, client,
                   env, sse, ncalls, history>>

\* Time passes, unless a timer is due: a due timer fires first.
Tick ==
    /\ now + Quantum <= env.horizon
    /\ \A p \in Procs : Waiting(p) => timer[p] > now
    /\ now' = now + Quantum
    /\ UNCHANGED <<lastRequestTime, backoffUntil, pc, timer, cur, client,
                   server, env, sse, ncalls, history>>

Next ==
    \/ \E p \in Procs : Invoke(p)
    \/ \E p \in Procs : WakeBackoff(p)
    \/ \E p \in Procs : WakeInterval(p)
    \/ \E p \in Procs : Respond(p)
    \/ \E p \in Procs : WakeRetry(p)
    \/ \E p \in Procs : RespondRetry(p)
    \/ Tick

NextAdd == Next \/ OtherWriter

\* Time passes beyond the horizon while a timer is pending: a setTimeout
\* always fires.
Elapse ==
    /\ now + Quantum > env.horizon
    /\ \E p \in Procs : Waiting(p)
    /\ \A p \in Procs : Waiting(p) => timer[p] > now
    /\ now' = now + Quantum
    /\ UNCHANGED <<lastRequestTime, backoffUntil, pc, timer, cur, client,
                   server, env, sse, ncalls, history>>

NextLive == Next \/ Elapse

\* The event loop runs every timer that is due and time passes; every HTTP
\* exchange completes.  Callers need not invoke anything.
Fairness ==
    /\ WF_vars(Tick)
    /\ WF_vars(Elapse)
    /\ \A p \in Procs :
         /\ WF_vars(WakeBackoff(p))
         /\ WF_vars(WakeInterval(p))
         /\ WF_vars(WakeRetry(p))
         /\ WF_vars(Respond(p))
         /\ WF_vars(RespondRetry(p))

\* ----------------------------------------------------------- initial states
Str(c) == <<c>>

\* The menus a specification leaves out: the server sends empty pages
\* without Total-Results and accepts what is created.
WriteOk == [success |-> <<"NEWKEY">>, unchanged |-> <<>>, failed |-> <<>>]

NoLibrary == [items |-> <<>>, children |-> <<>>, fulltext |-> <<>>,
              files |-> <<>>]

\* The configurations index.ts builds: a user library over the web API, the
\* local API (ZOTERO_LOCAL: no key, library 0), and a group library.
UserConfig ==
    [apiKey |-> <<"K">>, libraryId |-> "123456", libraryType |-> "user",
     isLocal |-> FALSE, baseUrl |-> Undefined]
LocalConfig ==
    [apiKey |-> <<>>, libraryId |-> "0", libraryType |-> "user",
     isLocal |-> TRUE, baseUrl |-> Url(LOCAL_BASE_URL, FALSE)]
GroupConfig ==
    [apiKey |-> <<"K">>, libraryId |-> "99999", libraryType |-> "group",
     isLocal |-> FALSE, baseUrl |-> Undefined]

\* new Map(): no session yet.
NoSessions == [id \in {} |-> 0]

EnvDefaults ==
    [pages |-> {<<>>}, totals |-> {NoHeaders}, writes |-> {WriteOk},
     args |-> {NoArgs}, library |-> NoLibrary, fs |-> <<>>, dataDir |-> "",
     errorBodies |-> {<<>>}, clients |-> [p \in Procs |-> "c1"],
     config |-> UserConfig, countSleeps |-> FALSE]

InitWith(e) ==
    /\ now = Epoch
    /\ lastRequestTime = [i \in Instances |-> 0]
    /\ backoffUntil = [i \in Instances |-> 0]
    /\ pc = [p \in Procs |-> "idle"]
    /\ timer = [p \in Procs |-> 0]
    /\ cur = [p \in Procs |-> NoCall]
    /\ client = (e @@ EnvDefaults).clients
    /\ server = [version |-> 1, collections |-> <<"A">>]
    /\ env = e @@ EnvDefaults
    /\ ncalls = 0
    /\ sent = [i \in Instances |-> NoSend]
    /\ owed = [i \in Instances |-> 0]
    /\ firstSend = [i \in Instances |-> NoFirstSend]
    /\ obs = [p \in Procs |-> NoObs]
    /\ gov = [p \in Procs |-> NoGov]
    /\ retried = {}
    /\ patched = [p \in Procs |-> NoPatch]
    /\ done = [p \in Procs |-> NoDone]
    /\ mutating = [p \in Procs |-> <<>>]
    /\ accepted = <<>>
    /\ sessions = NoSessions
    /\ transports = <<>>
    /\ handled = {}

\* Sequential use: one caller, each operation awaited before the next; the
\* server may rate-limit or refuse a request and ask for a cooldown of 2 s
\* on any response.
Init ==
    InitWith([callers |-> {"p1"},
              ops |-> {"listCollections"},
              backoffs |-> {NoHeaders, OneHeader("Backoff", Str("2"))},
              retryAfters |-> {NoHeaders, OneHeader("Retry-After", Str("0")),
                               OneHeader("Retry-After", Str("1"))},
              backoffOn |-> {0, 429, 404},
              faults |-> {429, 404},
              horizon |-> MaxTime])

Spec == Init /\ [][Next]_vars

\* Concurrent use: two callers invoke operations on the same instance
\* without awaiting one another (two sessions share the one client).  The
\* server may ask for a cooldown of 1 s and every 429 names a Retry-After of
\* 1 s, so that no single caller ever sends two requests less than 1000 ms
\* apart.
InitConc ==
    InitWith([callers |-> Procs,
              ops |-> {"listCollections"},
              backoffs |-> {NoHeaders, OneHeader("Backoff", Str("1"))},
              retryAfters |-> {OneHeader("Retry-After", Str("1"))},
              backoffOn |-> {0, 429},
              faults |-> {429},
              horizon |-> ConcHorizon])

SpecConc == InitConc /\ [][Next]_vars

\* Concurrent writes: two callers add the item to collections through the
\* same instance, by addItemToCollection or by the add_note_to_collection
\* handler, while another client of the library changes the item.  The
\* server asks for a cooldown only on a response that rate-limits.
InitAdd ==
    InitWith([callers |-> Procs,
              ops |-> {"addItemToCollection", "add_note_to_collection"},
              backoffs |-> {NoHeaders, OneHeader("Backoff", Str("1"))},
              retryAfters |-> {OneHeader("Retry-After", Str("1"))},
              backoffOn |-> {429},
              faults |-> {429},
              horizon |-> AddHorizon])

SpecAdd == InitAdd /\ [][NextAdd]_vars

\* Paging: one caller lists collections and searches items, through the
\* client and through the handlers; the server sends pages of any length up
\* to MaxPage, with or without Total-Results.
Pages == UNION { [1..n -> {"I1", "I2"}] : n \in 0..MaxPage }
Totals == { OneHeader("Total-Results", NumberToString(n)) : n \in {0, 3, MaxTotal} }

InitPage ==
    InitWith([callers |-> {"p1"},
              ops |-> {"listCollections", "searchItems", "list_collections",
                       "search_items"},
              args |-> {[limit |-> 1, offset |-> 0, query |-> "q"],
                        [limit |-> 10, offset |-> 5, query |-> "q"]},
              pages |-> Pages,
              totals |-> {NoHeaders} \cup Totals,
              backoffs |-> {NoHeaders, OneHeader("Backoff", Str("2"))},
              retryAfters |-> {OneHeader("Retry-After", Str("1"))},
              backoffOn |-> {429},
              faults |-> {429, 404},
              horizon |-> PageHorizon])

SpecPage == InitPage /\ [][Next]_vars

\* Writes: one caller creates collections and notes through the handlers
\* and adds the item to a collection; the server reports any mix of created
\* and failed submissions.
Chars(a, b) == <<a, b>>

WriteFailed ==
    [success |-> <<>>, unchanged |-> <<>>,
     failed |-> <<[code |-> 400, message |-> Chars("m", "1")],
                  [code |-> 413, message |-> Chars("m", "2")]>>]
WriteBoth ==
    [success |-> <<"NEWKEY">>, unchanged |-> <<>>,
     failed |-> <<[code |-> 400, message |-> Chars("m", "1")]>>]
WriteNothing == [success |-> <<>>, unchanged |-> <<>>, failed |-> <<>>]

InitWrite ==
    InitWith([callers |-> {"p1"},
              ops |-> {"create_collection", "create_note", "addItemToCollection"},
              args |-> {[name |-> "n", parentCollection |-> "",
                         title |-> Chars("a", "&"), content |-> Chars("<p>", "c"),
                         useTemplate |-> TRUE],
                        [name |-> "n", parentCollection |-> "A",
                         title |-> Chars("t", "<"), content |-> Chars("<p>", "c"),
                         useTemplate |-> FALSE]},
              writes |-> {WriteOk, WriteFailed, WriteBoth, WriteNothing},
              backoffs |-> {NoHeaders, OneHeader("Backoff", Str("2"))},
              retryAfters |-> {OneHeader("Retry-After", Str("1"))},
              backoffOn |-> {429},
              faults |-> {429, 400},
              horizon |-> WriteHorizon])

SpecWrite == InitWrite /\ [][Next]_vars

\* Attachments: one caller reads items, attachment lists, indexed text and
\* files, through the handlers and through getFullText itself.  The library
\* holds the article P1 with a note, a snapshot and a PDF below it, or with
\* the note alone; the storage directory holds every artifact, none, or
\* every one in a state where it is there but can be neither read nor
\* inspected.  Requests may be refused, rate-limited, or never answered.
Item(key, type, filename, contentType) ==
    [key |-> key, itemType |-> type, title |-> "", filename |-> filename,
     contentType |-> contentType, linkMode |-> "imported_file"]

Bundle == [kind |-> "fulltext", content |-> "text", indexedPages |-> 2,
           totalPages |-> 2]

LibraryItems ==
    "P1" :> Item("P1", "journalArticle", "", "")
    @@ "N1" :> Item("N1", "note", "", "")
    @@ "A1" :> Item("A1", "attachment", "a.pdf", "application/pdf")
    @@ "A2" :> Item("A2", "attachment", "s.html", "text/html")

NoChildren == [k \in DOMAIN LibraryItems |-> <<>>]

FullLibrary ==
    [items |-> LibraryItems,
     children |-> [NoChildren EXCEPT !["P1"] = <<"N1", "A2", "A1">>],
     fulltext |-> "A1" :> Bundle,
     files |-> "A1" :> ("Content-Type" :> "application/pdf"
                        @@ "Content-Disposition" :> "a.pdf")
               @@ "A2" :> ("Content-Type" :> "text/html")]

BareLibrary ==
    [items |-> LibraryItems,
     children |-> [NoChildren EXCEPT !["P1"] = <<"N1">>],
     fulltext |-> <<>>,
     files |-> <<>>]

DataDir == "/z"

ArtifactPaths ==
    { DataDir \o "/storage/" \o k \o "/" \o n :
        k \in {"P1", "A1", "A2"}, n \in {FT_CACHE, "a.pdf", "s.html"} }

InitTools ==
    \E lib \in {FullLibrary, BareLibrary} :
    \E files \in {"ok", "missing", "broken"} :
    InitWith([callers |-> {"p1"},
              ops |-> {"get_item", "get_item_attachments", "get_item_fulltext",
                       "read_attachment", "getFullText"},
              args |-> { [itemKey |-> k, forceRemote |-> f] :
                           k \in {"P1", "A1"}, f \in BOOLEAN },
              library |-> lib,
              fs |-> [path \in ArtifactPaths |-> files],
              dataDir |-> DataDir,
              backoffs |-> {NoHeaders, OneHeader("Backoff", Str("2"))},
              retryAfters |-> {OneHeader("Retry-After", Str("1"))},
              backoffOn |-> {429},
              faults |-> {429, 403, Rejected},
              horizon |-> ToolHorizon])

SpecTools == InitTools /\ [][Next]_vars

\* Every handler: one caller calls each of the nine tools; the server may
\* refuse a request, rate-limit it, or never answer it.
AllArgs ==
    [itemKey |-> "P1", forceRemote |-> FALSE, limit |-> 1, offset |-> 0,
     query |-> "q", name |-> "n", parentCollection |-> "",
     title |-> Chars("t", "<"), content |-> Chars("<p>", "c"),
     useTemplate |-> FALSE]

InitHandlers ==
    InitWith([callers |-> {"p1"},
              ops |-> Handlers,
              args |-> {AllArgs},
              library |-> FullLibrary,
              fs |-> [path \in ArtifactPaths |-> "missing"],
              dataDir |-> DataDir,
              writes |-> {WriteOk, WriteFailed},
              backoffs |-> {NoHeaders, OneHeader("Backoff", Str("2"))},
              retryAfters |-> {OneHeader("Retry-After", Str("1"))},
              backoffOn |-> {429},
              faults |-> {429, 403, Rejected},
              horizon |-> ToolHorizon])

SpecHandlers == InitHandlers /\ [][Next]_vars

\* throwOnError: one caller lists collections and reads an item; the server
\* fails a request with any status of the table or with one outside it,
\* and the body of the failing response is empty, some text, or cannot be
\* read; or the exchange itself fails.
Statuses == {400, 403, 404, 409, 412, 413, 429, 503, 500, 302}

InitThrow ==
    InitWith([callers |-> {"p1"},
              ops |-> {"listCollections", "get_item"},
              args |-> {[itemKey |-> "A1", forceRemote |-> FALSE]},
              library |-> FullLibrary,
              errorBodies |-> {<<>>, <<"quota">>, Unreadable},
              backoffs |-> {NoHeaders, OneHeader("Backoff", Str("2"))},
              retryAfters |-> {OneHeader("Retry-After", Str("1"))},
              backoffOn |-> {429},
              faults |-> Statuses \cup {Rejected},
              horizon |-> ThrowHorizon])

SpecThrow == InitThrow /\ [][Next]_vars

\* Two instances: each of the two callers has a client of its own; the
\* server may ask for a cooldown on any response and rate-limit any request.
InitInst ==
    InitWith([callers |-> Procs,
              clients |-> ("p1" :> "c1" @@ "p2" :> "c2"),
              ops |-> {"listCollections"},
              backoffs |-> {NoHeaders, OneHeader("Backoff", Str("2"))},
              retryAfters |-> {OneHeader("Retry-After", Str("1"))},
              backoffOn |-> {0, 429},
              faults |-> {429},
              horizon |-> InstHorizon])

SpecInst == InitInst /\ [][Next]_vars

\* Waits: one caller lists collections, each call awaited before the next;
\* the server may rate-limit with a Retry-After of 0 or 1 s and ask for a
\* cooldown of 0 or 1 s on any response, so that a call can find both the
\* cooldown and the interval ahead of it.
InitWaits ==
    InitWith([callers |-> {"p1"},
              ops |-> {"listCollections"},
              backoffs |-> {NoHeaders, OneHeader("Backoff", Str("0")),
                            OneHeader("Backoff", Str("1"))},
              retryAfters |-> {OneHeader("Retry-After", Str("0")),
                               OneHeader("Retry-After", Str("1"))},
              backoffOn |-> {0, 429},
              faults |-> {429},
              countSleeps |-> TRUE,
              horizon |-> WaitsHorizon])

SpecWaits == InitWaits /\ [][Next]_vars

\* ------------------------------------------------------------- SSE mode
\* index.ts main, transport "sse": the HTTP server, its session map and the
\* SSEServerTransports it creates.  A transport is the SDK's; what is
\* modelled of it is its sessionId, whether its connection is open, and that
\* it calls its onclose callback when the connection closes.

\* transport.sessionId of the n-th transport: an id no other transport has.
SessionId(n) == <<"s", n>>

\* The HTTP requests the server may get.  url.searchParams.get("sessionId")
\* is null without the parameter (hasSessionId is FALSE), and may be the
\* empty string, the id of a transport, or an id no transport has.
SseRequests ==
    {[method |-> "GET", path |-> "/sse", hasSessionId |-> FALSE,
      sessionId |-> <<>>],
     [method |-> "GET", path |-> "/messages", hasSessionId |-> FALSE,
      sessionId |-> <<>>],
     [method |-> "POST", path |-> "/sse", hasSessionId |-> TRUE,
      sessionId |-> SessionId(1)],
     [method |-> "POST", path |-> "/messages", hasSessionId |-> FALSE,
      sessionId |-> <<>>]}
    \cup { [method |-> "POST", path |-> "/messages", hasSessionId |-> TRUE,
            sessionId |-> id] :
              id \in {<<>>, <<"z">>} \cup {SessionId(n) : n \in 1..MaxSessions} }

NoTransport == 0

\* `sessionId ? sessions.get(sessionId) : undefined`.
SessionFor(map, req) ==
    IF req.hasSessionId /\ req.sessionId # <<>> /\ req.sessionId \in DOMAIN map
    THEN map[req.sessionId]
    ELSE NoTransport

\* sessions.set(transport.sessionId, transport).
SessionsSet(map, id, t) ==
    [k \in DOMAIN map \cup {id} |-> IF k = id THEN t ELSE map[k]]

\* Mutant: the onclose callback leaves the map alone.
OnClose_kept(map, id) == map

\* `transport.onclose = () => sessions.delete(transport.sessionId)`.
OnClose(map, id) == [k \in DOMAIN map \ {id} |-> map[k]]

\* What the history keeps of a handled request: the answer, the transport
\* the request was handed to (if any), and, as they were when the request
\* came in, whether its sessionId was a key of the session map and whether
\* the connection of the transport it was handed to was open.
Handled(req, status, t) ==
    [req |-> req, status |-> status, transport |-> t,
     known |-> req.hasSessionId /\ req.sessionId \in DOMAIN sessions,
     open |-> t # NoTransport /\ transports[t].state = "open"]

\* The request listener of the HTTP server handles req.
HandleRequest(req) ==
    /\ IF req.method = "GET" /\ req.path = "/sse"
       THEN /\ Len(transports) < MaxSessions
            /\ \E n \in {Len(transports) + 1} :
                 /\ transports' = Append(transports,
                                         [sessionId |-> SessionId(n),
                                          state |-> "open"])
                 /\ sessions' = SessionsSet(sessions, SessionId(n), n)
                 /\ handled' = handled \cup {Handled(req, 200, NoTransport)}
       ELSE IF req.method = "POST" /\ req.path = "/messages"
       THEN \E t \in {SessionFor(sessions, req)} :
              /\ handled' = handled \cup
                    {IF t = NoTransport THEN Handled(req, 400, NoTransport)
                     ELSE Handled(req, 202, t)}
              /\ UNCHANGED <<sessions, transports>>
       ELSE /\ handled' = handled \cup {Handled(req, 404, NoTransport)}
            /\ UNCHANGED <<sessions, transports>>
    /\ UNCHANGED <<state, history>>

\* The connection of the n-th transport closes: the transport calls onclose.
CloseTransport(n) ==
    /\ n <= Len(transports)
    /\ transports[n].state = "open"
    /\ transports' = [transports EXCEPT ![n].state = "closed"]
    /\ sessions' = OnClose(sessions, transports[n].sessionId)
    /\ UNCHANGED <<state, history, handled>>

NextSse ==
    \/ \E req \in SseRequests : HandleRequest(req)
    \/ \E n \in 1..MaxSessions : CloseTransport(n)

InitSse == InitWith([callers |-> {}, ops |-> {}, backoffs |-> {NoHeaders},
                     retryAfters |-> {NoHeaders}, backoffOn |-> {},
                     faults |-> {}, horizon |-> Epoch])

SpecSse == InitSse /\ [][NextSse]_vars

\* Attachment lists: one caller lists the attachments of P1, below which are
\* a note, a snapshot, a PDF and a linked URL, an attachment without a
\* filename.  The data directory is set or not; the storage directory holds
\* every file, none, or every one in a state where stat fails, and has a
\* directory for the linked URL.
LinkLibrary ==
    [FullLibrary EXCEPT
       !.items = [k \in DOMAIN LibraryItems \cup {"A3"} |->
                    IF k = "A3"
                    THEN [Item("A3", "attachment", "", "text/html")
                            EXCEPT !.linkMode = "linked_url"]
                    ELSE LibraryItems[k]],
       !.children = [k \in DOMAIN LibraryItems \cup {"A3"} |->
                       IF k = "P1" THEN <<"N1", "A2", "A1", "A3">> ELSE <<>>]]

InitAttach ==
    \E dir \in {DataDir, ""} :
    \E files \in {"ok", "missing", "broken"} :
    InitWith([callers |-> {"p1"},
              ops |-> {"get_item_attachments"},
              args |-> { [itemKey |-> "P1", forceRemote |-> f] : f \in BOOLEAN },
              library |-> LinkLibrary,
              fs |-> [path \in ArtifactPaths |-> files]
                     @@ [path \in {DataDir \o "/storage/A3/"} |-> "ok"],
              dataDir |-> dir,
              backoffs |-> {NoHeaders, OneHeader("Backoff", Str("2"))},
              retryAfters |-> {OneHeader("Retry-After", Str("1"))},
              backoffOn |-> {429},
              faults |-> {429},
              horizon |-> AttachHorizon])

SpecAttach == InitAttach /\ [][Next]_vars

\* Retries: one caller lists collections; every 429 names a Retry-After of
\* 1 s, and the server may ask for a cooldown of 2 s on every response but
\* the 429 to a first attempt.
InitRetry ==
    InitWith([callers |-> {"p1"},
              ops |-> {"listCollections"},
              backoffs |-> {NoHeaders, OneHeader("Backoff", Str("2"))},
              retryAfters |-> {OneHeader("Retry-After", Str("1"))},
              backoffOn |-> {0},
              backoffOnRetry |-> {0, 429},
              faults |-> {429},
              horizon |-> RetryHorizon])

SpecRetry == InitRetry /\ [][Next]_vars

\* Termination: two callers list collections through one instance; the
\* server may rate-limit, and asks for a cooldown of 1 s when it does.
InitLive ==
    InitWith([callers |-> Procs,
              ops |-> {"listCollections"},
              backoffs |-> {OneHeader("Backoff", Str("1"))},
              retryAfters |-> {OneHeader("Retry-After", Str("1"))},
              backoffOn |-> {429},
              faults |-> {429},
              countSleeps |-> TRUE,
              horizon |-> LiveHorizon])

SpecLive == InitLive /\ [][NextLive]_vars /\ Fairness

\* Configurations: one caller calls each tool on a client built for a user
\* library, for the local API and for a group library.
InitConfig ==
    \E config \in {UserConfig, LocalConfig, GroupConfig} :
        InitWith([callers |-> {"p1"},
                  ops |-> Handlers,
                  args |-> {AllArgs},
                  config |-> config,
                  library |-> FullLibrary,
                  fs |-> [path \in ArtifactPaths |-> "missing"],
                  dataDir |-> DataDir,
                  backoffs |-> {NoHeaders, OneHeader("Backoff", Str("2"))},
                  retryAfters |-> {OneHeader("Retry-After", Str("1"))},
                  backoffOn |-> {429},
                  faults |-> {429},
                  horizon |-> ConfigHorizon])

SpecConfig == InitConfig /\ [][Next]_vars

\* Resolution: one caller asks for the text and the file of the article P1
\* and of the attachment A1.  Below P1 are a note, a snapshot and a third
\* attachment, in this order; the third is a PDF in one library and an
\* image in the other.
ImageLibrary ==
    [FullLibrary EXCEPT
        !.items["A1"] = Item("A1", "attachment", "a.pdf", "image/png"),
        !.fulltext = "A2" :> Bundle]

InitResolve ==
    \E lib \in {FullLibrary, ImageLibrary} :
    \E files \in {"ok", "missing"} :
    InitWith([callers |-> {"p1"},
              ops |-> {"get_item_fulltext", "read_attachment"},
              args |-> { [itemKey |-> k, forceRemote |-> f] :
                           k \in {"P1", "A1"}, f \in BOOLEAN },
              library |-> lib,
              fs |-> [path \in ArtifactPaths |-> files],
              dataDir |-> DataDir,
              backoffs |-> {NoHeaders, OneHeader("Backoff", Str("2"))},
              retryAfters |-> {OneHeader("Retry-After", Str("1"))},
              backoffOn |-> {429},
              faults |-> {429},
              horizon |-> ToolHorizon])

SpecResolve == InitResolve /\ [][Next]_vars

\* ------------------------------------------------------------- properties
\* The seconds a Retry-After or Backoff header names, NaN when it names none.
Seconds(h, name) == IF HasHeader(h, name) THEN ParseInt(h[name]) ELSE NaN

\* C1: in sequential use any two consecutive requests of an instance, the
\* retry after a 429 included, are sent at least 1000 ms apart.
C1_MinGapSequential ==
    \A i \in Instances :
        sent[i].prev # 0 => sent[i].last - sent[i].prev >= MIN_INTERVAL_MS

\* C2: in sequential use, after a response that arrived at t with Backoff: N,
\* the first request of the next operation is sent no earlier than
\* t + N * 1000 (owed is the latest such deadline when that request goes out).
C2_BackoffHonoured ==
    \A i \in Instances :
        firstSend[i].call # 0 => firstSend[i].t >= firstSend[i].owed

\* C3: a rateLimitedFetch call sends one request when the first response is
\* not 429 and two when it is; it hands on the last response it got, whatever
\* its status; an operation handed a 429 fails with "Rate limit exceeded".
C3_ExactlyOneRetry ==
    \A p \in Procs :
        /\ gov[p].call # 0 =>
             IF gov[p].first # 429
             THEN gov[p].sends = 1 /\ gov[p].second = 0
                  /\ gov[p].handed = gov[p].first
             ELSE gov[p].sends = 2 /\ gov[p].second # 0
                  /\ gov[p].handed = gov[p].second
        /\ (done[p].call # 0 /\ done[p].handed = 429) =>
             /\ done[p].outcome = "threw"
             /\ done[p].error.msg = <<"Rate limit exceeded">>

\* C3 witness: a call whose retry was answered 429 too, and whose operation
\* then failed.
C3_Witness ==
    \E p \in Procs :
        /\ gov[p].first = 429 /\ gov[p].second = 429 /\ gov[p].sends = 2
        /\ done[p].outcome = "threw"

\* C4: at most one request of a client instance is in flight at any moment,
\* also when operations are invoked concurrently.
C4_OneInFlight ==
    \A i \in Instances :
        Cardinality({p \in Procs : client[p] = i /\ InFlight(p)}) <= 1

\* C5: under concurrent invocation the requests of an instance are still
\* at least 1000 ms apart and none goes out before the cooldown deadline.
C5_ConcurrentSpacing ==
    \A i \in Instances :
        /\ sent[i].prev # 0 => sent[i].last - sent[i].prev >= MIN_INTERVAL_MS
        /\ sent[i].cooldownLeft = 0

\* C6: the retry after a 429 goes out no earlier than Retry-After seconds
\* after the 429 arrived when the header names seconds, and no earlier than
\* 5000 ms after it when the header is absent.
C6_RetryWait ==
    \A r \in retried :
        /\ Seconds(r.headers, "Retry-After") # NaN =>
             r.waited >= Seconds(r.headers, "Retry-After") * MS_PER_SECOND
        /\ ~HasHeader(r.headers, "Retry-After") =>
             r.waited >= DEFAULT_RETRY_WAIT_MS

\* C6 witness: a retry after a 429 with Retry-After: 1 and a retry after a
\* 429 without the header have both gone out.
C6_Witness ==
    /\ \E r \in retried : Seconds(r.headers, "Retry-After") = 1
    /\ \E r \in retried : ~HasHeader(r.headers, "Retry-After")

PreconditionFailed ==
    [context |-> "addItemToCollection(ITEM)",
     msg |-> <<"Precondition failed - item was modified by another client">>]

\* C7: every PATCH of addItemToCollection carries If-Unmodified-Since-Version
\* equal to the version the GET of the same call returned.
C7_PatchCarriesFetchedVersion ==
    \A p \in Procs :
        patched[p].call # 0 =>
            /\ HasHeader(patched[p].headers, IfUnmodified)
            /\ ParseInt(patched[p].headers[IfUnmodified]) = patched[p].got.version

\* C7 witness: a PATCH went out after the item had changed since the start,
\* the handler's own fetch having seen the older version.
C7_Witness ==
    \E p \in Procs :
        /\ patched[p].call # 0
        /\ patched[p].got.version = 2
        /\ pc[p] = "fetch"
        /\ cur[p].handlerItem.version = 1

\* C8: a PATCH answered 412 ends the operation with the precondition-failed
\* failure; no request follows it in that operation.
C8_PreconditionFailedSurfaced ==
    \A p \in Procs :
        /\ ~obs[p].saw412
        /\ (done[p].call # 0 /\ done[p].stage = "addItemToCollection.patch"
              /\ done[p].handed = 412) =>
             /\ done[p].error = PreconditionFailed
             /\ done[p].patches = gov[p].sends
             /\ IF done[p].op = "addItemToCollection"
                THEN done[p].outcome = "threw"
                ELSE done[p].reply = "isError"

\* C8 witness: addItemToCollection threw after its PATCH was answered 412.
C8_Witness ==
    \E p \in Procs :
        /\ done[p].op = "addItemToCollection"
        /\ done[p].handed = 412
        /\ done[p].outcome = "threw"

\* An operation that ended without failure.
Succeeded(d) ==
    /\ d.outcome = "returned"
    /\ d.error = NoError
    /\ d.reply # "isError"

\* C9 as stated: when the list first fetched contains the target, the
\* operation sends exactly one GET and no PATCH and reports success.
C9_OneGetNoPatch ==
    \A p \in Procs :
        (done[p].call # 0 /\ done[p].containedAt = FirstStage(done[p].op)) =>
            /\ done[p].gets = 1
            /\ done[p].patches = 0
            /\ Succeeded(done[p])

\* C9 as amended: when a fetched list contains the target, the operation
\* ends there with success and without a PATCH; that fetch is one getItem
\* call, which sends one GET, or two when the first was answered 429.
C9_OneGetCallNoPatch ==
    \A p \in Procs :
        (done[p].call # 0 /\ done[p].containedAt # "") =>
            /\ done[p].patches = 0
            /\ Succeeded(done[p])
            /\ done[p].stage = done[p].containedAt
            /\ gov[p].stage = done[p].containedAt
            /\ gov[p].sends = IF gov[p].first = 429 THEN 2 ELSE 1
            /\ IF done[p].containedAt = FirstStage(done[p].op)
               THEN done[p].getCalls = 1 /\ done[p].gets = gov[p].sends
               ELSE done[p].getCalls = 2

\* C9 witness: addItemToCollection returned after one GET, the item being in
\* the collection already.
C9_Witness ==
    \E p \in Procs :
        /\ done[p].op = "addItemToCollection"
        /\ done[p].containedAt = "addItemToCollection.getItem"
        /\ done[p].gets = 1
        /\ done[p].patches = 0
        /\ Succeeded(done[p])

\* C10: against a server that accepts a PATCH only when it names the current
\* version, an accepted PATCH replaces exactly the list its call fetched, with
\* the target appended; no two accepted PATCHes rest on the same fetched
\* version; an operation whose PATCH was not accepted does not report success.
C10_NoLostUpdate ==
    /\ \A k \in 1..Len(accepted) :
         /\ accepted[k].pre = accepted[k].got
         /\ accepted[k].body = Append(accepted[k].pre.collections, accepted[k].target)
         /\ \A j \in 1..Len(accepted) :
              j # k => accepted[j].got.version # accepted[k].got.version
    /\ \A p \in Procs :
         (done[p].call # 0 /\ done[p].stage = "addItemToCollection.patch"
            /\ Succeeded(done[p])) =>
              \E k \in 1..Len(accepted) : accepted[k].call = done[p].call

\* C10 witness: two calls fetched the same version and added different
\* collections; one PATCH was accepted, the other call failed with 412.
C10_Witness ==
    \E p, q \in Procs :
        /\ p # q
        /\ done[p].stage = "addItemToCollection.patch" /\ done[p].handed = 204
        /\ done[q].stage = "addItemToCollection.patch" /\ done[q].handed = 412
        /\ done[q].error = PreconditionFailed
        /\ done[p].got = done[q].got
        /\ done[p].target # done[q].target
        /\ Len(accepted) = 1

\* A list operation that returned a page.
ReturnedPage(d) ==
    /\ d.call # 0
    /\ d.stage \in {"listCollections", "searchItems"}
    /\ d.error = NoError

\* C19: a returned page has the offset and limit asked for (0 and 25 when
\* none was named), the items of the response, the total the Total-Results
\* header names when the response has one, and the number of items otherwise.
C19_PageFields ==
    \A p \in Procs :
        ReturnedPage(done[p]) =>
            LET page == done[p].result
                a    == done[p].args
            IN  /\ page.offset = IF "offset" \in DOMAIN a THEN a.offset ELSE 0
                /\ page.limit = IF "limit" \in DOMAIN a THEN a.limit ELSE 25
                /\ page.items = done[p].body
                /\ IF HasHeader(done[p].headers, "Total-Results")
                   THEN /\ page.totalResults \in Nat
                        /\ NumberToString(page.totalResults)
                             = done[p].headers["Total-Results"]
                   ELSE page.totalResults = Len(done[p].body)

\* C19 witness: the page asked for with limit 10 and offset 5 came back with
\* fewer items than the total the header names.
C19_Witness ==
    \E p \in Procs :
        /\ ReturnedPage(done[p])
        /\ done[p].result.offset = 5 /\ done[p].result.limit = 10
        /\ done[p].result.totalResults = MaxTotal
        /\ Len(done[p].result.items) < MaxTotal

\* C20: a returned page holds at most limit items.
C20_PageWithinLimit ==
    \A p \in Procs :
        ReturnedPage(done[p]) =>
            /\ 0 <= Len(done[p].result.items)
            /\ Len(done[p].result.items) <= done[p].result.limit

\* C11: every POST and PATCH the client sends carries a Zotero-Write-Token.
C11_WriteTokenOnEveryWrite ==
    \A p \in Procs : \A k \in 1..Len(mutating[p]) :
        HasHeader(mutating[p][k].headers, WriteToken)

\* The sequence part occurs in the sequence text.
Contains(text, part) ==
    \E k \in 0..(Len(text) - Len(part)) : SubSeq(text, k + 1, k + Len(part)) = part

\* A create handler ended after an HTTP exchange that succeeded.
Created(d) ==
    /\ d.call # 0
    /\ d.op \in {"create_collection", "create_note"}
    /\ d.handed \in 200..299

\* C17: after a successful exchange create_collection and create_note reply
\* with isError and every failure message when the failed map of the write
\* response is not empty, and with the created key only when it is empty.
C17_FailedMapIsFailure ==
    \A p \in Procs :
        Created(done[p]) =>
            IF done[p].body.failed # <<>>
            THEN /\ done[p].reply = "isError"
                 /\ \A k \in 1..Len(done[p].body.failed) :
                      Contains(done[p].text, done[p].body.failed[k].message)
            ELSE /\ done[p].reply = "created"
                 /\ done[p].text[1].key =
                      (IF done[p].body.success = <<>> THEN "undefined"
                       ELSE done[p].body.success[1])

\* C17 witness: create_note replied with isError although the response was
\* 200 and named a created key next to the failure.
C17_Witness ==
    \E p \in Procs :
        /\ Created(done[p])
        /\ done[p].op = "create_note"
        /\ done[p].body = WriteBoth
        /\ done[p].reply = "isError"

RemoteCalled(d) ==
    \E k \in 1..Len(d.endpoints) : d.endpoints[k] \in {"fulltext", "file"}

\* The operation resolved its attachment, and the artifact the handler
\* looks for is in local storage.
LocalArtifact(d) ==
    CASE d.op = "get_item_fulltext" -> StoragePath(d.att.key, FT_CACHE)
      [] d.op = "read_attachment" -> StoragePath(d.att.key, d.att.filename)
Resolved(d) ==
    /\ d.op \in {"get_item_fulltext", "read_attachment"}
    /\ d.att.key # ""
    /\ d.op = "read_attachment" => d.att.filename # ""
HasLocalArtifact(d) == Resolved(d) /\ ExistsSync(LocalArtifact(d))

\* C13: in get_item_fulltext and read_attachment, when the artifact of the
\* resolved attachment exists locally and forceRemote is false, getFullText
\* (downloadAttachment) is never called and the reply is marked local.
C13_LocalMeansLocalReply ==
    \A p \in Procs :
      LET d == done[p]
      IN  HasLocalArtifact(d) /\ ~d.args.forceRemote =>
            ~RemoteCalled(d) /\ d.reply = "local"

\* The handlers that look into local storage.
LocalFirst == {"get_item_attachments", "get_item_fulltext", "read_attachment"}

\* The reply of a handler reports a local path or local content.
ReportsLocal(d) ==
    CASE d.reply = "listed" ->
           \E k \in 1..Len(d.text[1].attachments) :
              "localPath" \in DOMAIN d.text[1].attachments[k]
      [] d.reply \in {"local", "api"} ->
           d.text[1].source = "local" \/ "localPath" \in DOMAIN d.text[1]
      [] OTHER -> FALSE

\* C14: with forceRemote set, local storage contributes nothing to the reply
\* of get_item_attachments, get_item_fulltext and read_attachment: no local
\* path or local content is reported, and an operation that resolved its
\* attachment called the remote operation, also when the artifact is there.
C14_ForceRemoteSkipsLocal ==
    \A p \in Procs :
      LET d == done[p]
      IN  d.op \in LocalFirst /\ d.args.forceRemote =>
            /\ ~ReportsLocal(d)
            /\ d.reply # "local"
            /\ Resolved(d) => RemoteCalled(d)
            /\ d.reply = "api" => RemoteCalled(d) /\ d.text[1].source = "api"

\* get_item_fulltext answered from the API although the cache file of the
\* attachment is in local storage.
C14_Witness ==
    \E p \in Procs :
      /\ done[p].op = "get_item_fulltext"
      /\ done[p].args.forceRemote
      /\ HasLocalArtifact(done[p])
      /\ done[p].reply = "api"

\* C15: in get_item_fulltext and read_attachment the local probe comes
\* before any network call: when the artifact is in local storage and
\* forceRemote is false, the operation ends without having sent a request.
C15_LocalMeansNoRequest ==
    \A p \in Procs :
      LET d == done[p]
      IN  HasLocalArtifact(d) /\ ~d.args.forceRemote => d.endpoints = <<>>

\* The file is there, but stat fails on it.
Broken(path) == path \in DOMAIN env.fs /\ env.fs[path] = "broken"

\* The entries of a get_item_attachments reply.
Listed(d) == IF d.reply = "listed" THEN d.text[1].attachments ELSE <<>>

\* C16: a missing local file or a failing stat never makes an error reply.
\* get_item_attachments, once it has the children, lists every attachment:
\* without localPath when the file is missing, with localPath and without
\* fileSize when stat fails.  get_item_fulltext and read_attachment, when
\* the artifact of the resolved attachment is missing, call the remote
\* operation, and fail only if that call fails.
C16_ProbeFailureIsNoError ==
    \A p \in Procs :
      LET d == done[p]
      IN  /\ d.op = "get_item_attachments" /\ d.handed = 200 =>
                /\ d.reply \in {"listed", "none"}
                /\ Len(Listed(d)) = Len(AttachmentsOnly(d.body))
                /\ \A k \in 1..Len(Listed(d)) :
                      LET a    == Listed(d)[k]
                          path == StoragePath(a.key, a.filename)
                      IN  /\ a.key = AttachmentsOnly(d.body)[k].key
                          /\ ~ExistsSync(path) => "localPath" \notin DOMAIN a
                          /\ Broken(path) /\ ~d.args.forceRemote =>
                                "localPath" \in DOMAIN a
                                /\ "fileSize" \notin DOMAIN a
          /\ Resolved(d) /\ ~ExistsSync(LocalArtifact(d)) =>
                /\ RemoteCalled(d)
                /\ d.reply = "isError" =>
                      d.error = FetchFailed \/ ~ResponseOk(d.handed)

\* get_item_attachments listed an attachment whose file is there but cannot
\* be inspected: the entry has the path and no size.
C16_Witness ==
    \E p \in Procs :
      /\ done[p].op = "get_item_attachments"
      /\ done[p].reply = "listed"
      /\ \E k \in 1..Len(Listed(done[p])) :
            /\ "localPath" \in DOMAIN Listed(done[p])[k]
            /\ "fileSize" \notin DOMAIN Listed(done[p])[k]
            /\ Broken(Listed(done[p])[k].localPath)

\* The last part of a reply's text.
LastPart(text) == IF text = <<>> THEN <<>> ELSE text[Len(text)]

\* The operation ended on a failure of the client: fetch was rejected, or
\* the last response had a status the method throws on.
TransportFailure(d) == d.call # 0 /\ d.handed = 0
StatusFailure(d) ==
    /\ d.call # 0 /\ d.handed # 0 /\ ~ResponseOk(d.handed)
    /\ ~(d.stage = "getFullText" /\ d.handed = 404)

\* C18: every handler returns a result whatever the client operations it
\* calls do: after a response with a failure status, and after a rejected
\* fetch, the reply has isError set and its text ends with the message of
\* the failure; no handler throws.
C18_HandlersAlwaysReply ==
    \A p \in Procs :
      LET d == done[p]
      IN  d.op \in Handlers =>
            /\ d.outcome = "returned"
            /\ d.reply # ""
            /\ StatusFailure(d) =>
                  /\ d.reply = "isError"
                  /\ d.text[1] = "Error: "
                  /\ LastPart(d.text) = MessageFor(d.handed)
            /\ TransportFailure(d) =>
                  /\ d.reply = "isError"
                  /\ d.text = <<"Error: ", <<"fetch failed">>>>

\* A handler whose fetch was rejected replied with isError and the message
\* of the rejection.
C18_Witness ==
    \E p \in Procs :
      /\ done[p].op \in Handlers
      /\ TransportFailure(done[p])
      /\ done[p].reply = "isError"
      /\ LastPart(done[p].text) = <<"fetch failed">>

\* The attachments below the item key of the library, in the library's
\* order, and the one a parent key stands for: the first PDF among them,
\* the first of them when none is a PDF.
AttachmentsBelow(lib, key) ==
    SelectSeq(lib.children[key],
              LAMBDA k : lib.items[k].itemType = "attachment")
PdfsBelow(lib, key) ==
    { i \in 1..Len(AttachmentsBelow(lib, key)) :
        lib.items[AttachmentsBelow(lib, key)[i]].contentType = "application/pdf" }
Preferred(lib, key) ==
    LET below == AttachmentsBelow(lib, key)
        pdfs  == PdfsBelow(lib, key)
    IN  IF pdfs # {}
        THEN below[CHOOSE i \in pdfs : \A j \in pdfs : i <= j]
        ELSE below[1]

\* The operation was given the key of an item that is no attachment and
\* has attachments below it, and it has fetched them.
ParentResolved(d) ==
    /\ d.op \in {"get_item_fulltext", "read_attachment"}
    /\ d.args.itemKey \in DOMAIN env.library.items
    /\ env.library.items[d.args.itemKey].itemType # "attachment"
    /\ AttachmentsBelow(env.library, d.args.itemKey) # <<>>
    /\ d.att.key # ""

\* C21: given the key of a non-attachment item, get_item_fulltext and
\* read_attachment resolve it to the first attachment child that is a PDF,
\* or to the first attachment child when none is, and probe local storage
\* and call the remote operation with that child's key, not the key given.
C21_ResolvesToPreferredChild ==
    \A p \in Procs :
      LET d     == done[p]
          child == Preferred(env.library, d.args.itemKey)
          file  == env.library.items[child].filename
      IN  ParentResolved(d) =>
            /\ d.att.key = child
            /\ d.reply = "local" \/ RemoteCalled(d)
            /\ \A k \in 1..Len(d.paths) :
                  /\ d.endpoints[k] = "fulltext" =>
                        d.paths[k] = "/items/" \o child \o "/fulltext"
                  /\ d.endpoints[k] = "file" =>
                        d.paths[k] = "/items/" \o child \o "/file"
            /\ d.reply \in {"local", "api", "none"} =>
                  d.text[1].attachmentKey = child
            /\ d.reply = "local" /\ d.op = "get_item_fulltext" =>
                  d.text[1].content
                    = "content of /z/storage/" \o child \o "/.zotero-ft-cache"
            /\ d.reply = "local" /\ d.op = "read_attachment" =>
                  d.text[1].localPath = "/z/storage/" \o child \o "/" \o file

\* read_attachment, given the article, downloaded the PDF although the
\* snapshot comes first among the article's children.
C21_Witness ==
    \E p \in Procs :
      /\ ParentResolved(done[p])
      /\ done[p].op = "read_attachment"
      /\ done[p].reply = "api"
      /\ done[p].att.key = "A1"
      /\ AttachmentsBelow(env.library, "P1")[1] = "A2"
      /\ done[p].paths[Len(done[p].paths)] = "/items/A1/file"

\* The reason of the table for a status, "HTTP <status>" for any other.
Reason(status) ==
    CASE status = 400 -> <<"Bad request - check parameters">>
      [] status = 403 -> <<"Forbidden - invalid API key or insufficient permissions">>
      [] status = 404 -> <<"Not found - check the key or library ID">>
      [] status = 409 -> <<"Conflict - the library is currently locked; try again later">>
      [] status = 412 -> <<"Precondition failed - item was modified by another client">>
      [] status = 413 -> <<"Request too large">>
      [] status = 429 -> <<"Rate limit exceeded">>
      [] status = 503 -> <<"Zotero service temporarily unavailable">>
      [] OTHER -> <<"HTTP ", status>>

\* C22: throwOnError raises nothing on a 2xx response; on any other status
\* it raises a failure with the context of the operation, followed by the
\* reason of the table for that status or by "HTTP <status>", followed by
\* the body text when there is one; a body that cannot be read counts as
\* empty and changes nothing else.
C22_ThrowOnError ==
    \A p \in Procs :
      LET d == done[p]
      IN  d.op = "listCollections" /\ d.handed # 0 =>
            IF ResponseOk(d.handed)
            THEN d.outcome = "returned" /\ d.error = NoError
            ELSE /\ d.outcome = "threw"
                 /\ d.error.context = "listCollections"
                 /\ d.error.msg =
                      Reason(d.handed)
                      \o (IF d.body \in {<<>>, Unreadable} THEN <<>>
                          ELSE <<" - ">> \o d.body)

\* listCollections failed on a status outside the table whose body could
\* not be read.
C22_Witness ==
    \E p \in Procs :
      /\ done[p].op = "listCollections"
      /\ done[p].handed = 500
      /\ done[p].body = Unreadable
      /\ done[p].error.msg = <<"HTTP ", 500>>

\* C23: when fetch rejects, the operation fails with the rejection itself,
\* neither wrapped nor replaced, and the exchange is not sent again: the
\* call ends with the one request it sent, or with the two it sent when
\* the rejected exchange was the retry after a 429.
C23_RejectionPropagates ==
    \A p \in Procs :
      LET d == done[p]
      IN  d.call # 0 /\ d.handed = 0 /\ d.op = "listCollections" =>
            /\ d.outcome = "threw"
            /\ d.error = [context |-> "", msg |-> <<"fetch failed">>]
            /\ \/ d.sends = 1 /\ d.first = 0
               \/ d.sends = 2 /\ d.first = 429
            /\ d.gets = d.sends
            /\ pc[p] \notin {"fetch", "fetchRetry", "waitRetry"}
                \/ cur[p].call # d.call

\* The first exchange of listCollections was rejected and the call ended
\* with that one request.
C23_Witness ==
    \E p \in Procs :
      /\ done[p].op = "listCollections"
      /\ done[p].call # 0 /\ done[p].handed = 0
      /\ done[p].sends = 1
      /\ done[p].outcome = "threw"

\* A caller that waits, waits for its own instance: for the cooldown
\* deadline of its client, or for 1000 ms after its client's last send.
WaitsForOwnInstance ==
    \A p \in Procs :
      /\ pc[p] = "waitBackoff" => timer[p] = backoffUntil[client[p]]
      /\ pc[p] = "waitInterval" =>
            timer[p] = lastRequestTime[client[p]] + MIN_INTERVAL_MS

\* A step changes the last-send time and the cooldown deadline of an
\* instance only when it is a step of a caller of that instance.
OwnInstanceOnly ==
    \A i \in Instances :
      lastRequestTime'[i] # lastRequestTime[i] \/ backoffUntil'[i] # backoffUntil[i]
        => \E p \in Procs :
              client[p] = i /\ (pc'[p] # pc[p] \/ cur'[p] # cur[p])

\* C24: the rate state belongs to one client instance.  A request, a
\* cooldown directive or a 429 on one instance never changes the last-send
\* time or the cooldown deadline of another, and never makes a caller of
\* another instance wait.
C24_RateStatePerInstance == [](WaitsForOwnInstance) /\ [][OwnInstanceOnly]_vars

\* The client c2 sends a request while c1 is in a cooldown and less than
\* 1000 ms after c1's last send; c2 has no cooldown of its own.
C24_Witness ==
    /\ pc["p2"] = "fetch"
    /\ client["p2"] = "c2" /\ client["p1"] = "c1"
    /\ lastRequestTime["c2"] = now
    /\ backoffUntil["c2"] = 0
    /\ backoffUntil["c1"] > now
    /\ lastRequestTime["c1"] > 0
    /\ now - lastRequestTime["c1"] < MIN_INTERVAL_MS

\* The request the caller p has sent last in the operation in progress.
Sent(p) == obs[p].wire

\* C25: every request carries Zotero-API-Version: 3, and carries a
\* Zotero-API-Key header exactly when the client is not in local mode: in
\* local mode the header is absent, not merely empty.
C25_KeyHeaderUnlessLocal ==
    \A p \in Procs :
        Sent(p) # NoWire =>
            /\ HasHeader(Sent(p).headers, "Zotero-API-Version")
            /\ Sent(p).headers["Zotero-API-Version"] = <<"3">>
            /\ HasHeader(Sent(p).headers, "Zotero-API-Key") <=> ~env.config.isLocal

\* C26: every request URL is under <base>/groups/<libraryId> when the
\* library type is group and under <base>/users/<libraryId> otherwise.
C26_PrefixFollowsLibraryType ==
    \A p \in Procs :
        Sent(p) # NoWire =>
            Sent(p).url[1] =
                BaseUrl(env.config)
                \o (IF env.config.libraryType = "group" THEN "/groups/"
                    ELSE "/users/")
                \o env.config.libraryId

\* C27: when a 429 carries Backoff: N, the retry goes out no earlier than
\* N * 1000 ms after the 429 arrived, the deadline that directive set, as
\* well as no earlier than the Retry-After wait.
C27_RetryAfterCooldown ==
    \A r \in retried :
        Seconds(r.headers, "Backoff") # NaN =>
            /\ r.waited >= Seconds(r.headers, "Backoff") * MS_PER_SECOND
            /\ r.waited >= RetryWaitMs([headers |-> r.headers])

\* C28: a request of an instance goes out no earlier than the latest
\* deadline a response has asked for on that instance so far, the responses
\* to retries included.
C28_RetryBackoffRecorded ==
    \A i \in Instances : sent[i].last >= sent[i].owedAt

\* A rateLimitedFetch call in progress has slept at most three times, the
\* sleep it is in included, and has sent at most two requests.
Bounded(p) ==
    /\ obs[p].sleeps + Count(Waiting(p)) <= 3
    /\ obs[p].sends <= 2

\* C29: every rateLimitedFetch call sleeps at most three times and sends at
\* most two requests, and every call invoked returns or fails, also when
\* two callers use the instance at once.
C29_Terminates ==
    /\ [](\A p \in Procs : Bounded(p))
    /\ \A p \in Procs : (pc[p] # "idle") ~> (pc[p] = "idle")

C29_Witness ==
    \E p \in Procs :
        /\ pc[p] = "idle" /\ done[p].call # 0
        /\ gov[p].sleeps = 3 /\ gov[p].sends = 2
        /\ \E q \in Procs \ {p} : done[q].call # 0

\* C30: the body of every PATCH of addItemToCollection is the list its call
\* fetched, entry by entry in the same order, with the target as one more,
\* last element; the target is nowhere else in it.
C30_PatchBodyAppendsTarget ==
    \A p \in Procs :
        patched[p].call # 0 =>
            LET body    == patched[p].body
                fetched == patched[p].got.collections
            IN  /\ Len(body) = Len(fetched) + 1
                /\ \A k \in 1..Len(fetched) : body[k] = fetched[k]
                /\ body[Len(body)] = patched[p].target
                /\ \A k \in 1..Len(fetched) : body[k] # patched[p].target

\* C30 witness: a PATCH went out for an item fetched in one collection, B,
\* with A as the target.
C30_Witness ==
    \E p \in Procs :
        /\ patched[p].call # 0
        /\ patched[p].got.collections = <<"B">>
        /\ patched[p].body = <<"B", "A">>
        /\ pc[p] = "fetch"
        /\ cur[p].req.method = "PATCH"

\* The file of a listed attachment is in the storage directory.
OnDisk(d, a) ==
    LET path == env.dataDir \o "/storage/" \o a.key \o "/" \o a.filename
    IN  /\ env.dataDir # ""
        /\ path \in DOMAIN env.fs /\ env.fs[path] # "missing"
        /\ a.localPath = path

\* C31: an entry of the get_item_attachments reply has localPath only when
\* forceRemote is false, the attachment has a filename and the file is at
\* <dataDir>/storage/<key>/<filename>; it has fileSize only when it has
\* localPath.
C31_LocalPathOnlyWhenResolved ==
    \A p \in Procs :
      LET d == done[p]
      IN  d.op = "get_item_attachments" =>
            \A k \in 1..Len(Listed(d)) :
               LET a == Listed(d)[k]
               IN  /\ "localPath" \in DOMAIN a =>
                         /\ ~d.args.forceRemote
                         /\ a.filename # ""
                         /\ OnDisk(d, a)
                   /\ "fileSize" \in DOMAIN a => "localPath" \in DOMAIN a

\* C31 witness: one reply lists the PDF with path and size and the linked
\* URL, whose storage directory is there, without them.
C31_Witness ==
    \E p \in Procs :
      /\ done[p].op = "get_item_attachments"
      /\ ~done[p].args.forceRemote
      /\ \E j, k \in 1..Len(Listed(done[p])) :
            /\ Listed(done[p])[j].key = "A1"
            /\ "fileSize" \in DOMAIN Listed(done[p])[j]
            /\ Listed(done[p])[k].key = "A3"
            /\ "localPath" \notin DOMAIN Listed(done[p])[k]
            /\ env.fs[env.dataDir \o "/storage/A3/"] = "ok"

\* C32: the first request of a rateLimitedFetch call that began at s goes out
\* at the latest of s, the cooldown deadline and the last send plus 1000 ms
\* as they were at s, or within one step of the clock after it: the waits
\* for the cooldown and for the interval do not add up.
C32_WaitsNotAdditive ==
    \A p \in Procs :
        (pc[p] = "fetch" /\ obs[p].sends = 1) =>
            /\ sent[client[p]].last >= obs[p].dueAt
            /\ sent[client[p]].last < obs[p].dueAt + Quantum

\* C32 witness: a request went out after both sleeps, at the deadline of the
\* interval, which was the later one.
C32_Witness ==
    \E p \in Procs :
        /\ pc[p] = "fetch" /\ obs[p].sends = 1 /\ obs[p].sleeps = 2
        /\ sent[client[p]].last = sent[client[p]].prev + MIN_INTERVAL_MS

\* C33: with one caller awaiting each call, no step lowers an instance's
\* lastRequestTime, and every step that leaves no call in progress leaves it
\* equal to the time of the instance's latest send, a retry's send included.
C33_LastRequestTimeIsLastSend ==
    [][\A i \in Instances :
          /\ lastRequestTime'[i] >= lastRequestTime[i]
          /\ (\A p \in Procs : pc'[p] = "idle") =>
                 lastRequestTime'[i] = sent'[i].last]_vars

\* C33 witness: a call whose request was sent again after a 429 has returned,
\* and lastRequestTime is the time of that second send.
C33_Witness ==
    /\ \A p \in Procs : pc[p] = "idle"
    /\ \E p \in Procs :
          /\ done[p].call # 0 /\ done[p].sends = 2
          /\ sent[client[p]].last > sent[client[p]].prev
          /\ lastRequestTime[client[p]] = sent[client[p]].last

\* Whether the first response of p's latest rateLimitedFetch call carried a
\* Backoff header.
FirstHadBackoff(p) ==
    IF pc[p] = "waitRetry"
    THEN HasHeader(obs[p].retryHeaders, "Backoff")
    ELSE gov[p].cooldown

\* C34: with one caller awaiting each call and directives of zero or more
\* seconds, no step lowers an instance's backoffUntil, and the only steps
\* that change it are arrivals of a response with a Backoff header.
C34_CooldownOnlyMovesLater ==
    [][\A i \in Instances :
          /\ backoffUntil'[i] >= backoffUntil[i]
          /\ backoffUntil'[i] # backoffUntil[i] =>
                \E p \in Procs :
                    /\ client[p] = i
                    /\ pc[p] = "fetch" /\ pc'[p] # "fetch"
                    /\ FirstHadBackoff(p)']_vars

\* C34 witness: a 429 without a Backoff header has arrived while a deadline
\* set by an earlier response stands, and the deadline is as it was.
C34_Witness ==
    \E p \in Procs :
        /\ pc[p] = "waitRetry"
        /\ ~HasHeader(obs[p].retryHeaders, "Backoff")
        /\ backoffUntil[client[p]] > 0

\* C35: with one caller awaiting each call, the step in which fetch rejects
\* leaves lastRequestTime at the time the rejected request was sent and
\* leaves backoffUntil alone, and the next request of that instance goes out
\* at least 1000 ms after the rejected one.
C35_RejectedExchangeCounts ==
    [][\A p \in Procs :
          LET i == client[p]
          IN  /\ (InFlight(p) /\ pc'[p] = "idle" /\ done'[p].handed = 0) =>
                    /\ lastRequestTime'[i] = sent[i].last
                    /\ sent'[i].last = sent[i].last
                    /\ sent'[i].rejectedAt = sent[i].last
                    /\ backoffUntil'[i] = backoffUntil[i]
              /\ (/\ sent[i].rejectedAt # 0
                  /\ sent[i].rejectedAt = sent[i].last
                  /\ ~InFlight(p) /\ InFlight(p)') =>
                    /\ sent'[i].prev = sent[i].rejectedAt
                    /\ sent'[i].last >= sent[i].rejectedAt + MIN_INTERVAL_MS]_vars

\* C35 witness: the request before the latest one was rejected, and the
\* latest one, the first of the caller's next operation, went out exactly
\* 1000 ms after it.
C35_Witness ==
    \E p \in Procs :
        /\ pc[p] = "fetch" /\ obs[p].sends = 1
        /\ sent[client[p]].rejectedAt # 0
        /\ sent[client[p]].prev = sent[client[p]].rejectedAt
        /\ sent[client[p]].last = sent[client[p]].prev + MIN_INTERVAL_MS
        /\ lastRequestTime[client[p]] = sent[client[p]].last

\* The write tokens among the mutating requests ms.
Tokens(ms) ==
    { ms[k].headers[WriteToken] :
        k \in {j \in 1..Len(ms) : HasHeader(ms[j].headers, WriteToken)} }

\* C36: the retry of a mutating request after a 429 has the method, the
\* path, the headers (write token or If-Unmodified-Since-Version included)
\* and the body of the first attempt, and the requests of a caller's next
\* operation carry none of the write tokens of its previous one.
C36_TokenOncePerCall ==
    [][\A p \in Procs :
          /\ \A k \in 2..Len(mutating'[p]) :
                mutating'[p][k].attempt = 2 =>
                    /\ mutating'[p][k - 1].attempt = 1
                    /\ mutating'[p][k] =
                          [mutating'[p][k - 1] EXCEPT !.attempt = 2]
          /\ (pc[p] = "idle" /\ pc'[p] # "idle") =>
                Tokens(mutating[p]) \cap Tokens(mutating'[p]) = {}]_vars

\* C36 witness: a create request was answered 429 and sent again with its
\* write token, after an earlier operation of the caller had sent one too.
C36_Witness ==
    \E p \in Procs :
        /\ Len(mutating[p]) = 2
        /\ mutating[p][2].attempt = 2 /\ mutating[p][2].call = 2
        /\ mutating[p][2].method = "POST"
        /\ Tokens(mutating[p]) = {RandomUUID(2)}

\* C37: when addItemToCollection has returned without throwing, the item on
\* the server was in the target collection right after the server handled
\* one of the call's requests, whatever other clients and the other caller
\* did to the item meanwhile.
C37_ReturnMeansContained ==
    \A p \in Procs :
        (/\ done[p].call # 0 /\ done[p].op = "addItemToCollection"
         /\ done[p].outcome = "returned") => done[p].held

\* C37 witness: a call returned after its PATCH was accepted, and another
\* client has since taken the item out of the target collection again.
C37_Witness ==
    \E p \in Procs :
        /\ done[p].call # 0 /\ done[p].op = "addItemToCollection"
        /\ done[p].outcome = "returned" /\ done[p].patches > 0
        /\ done[p].held
        /\ ~Member(server.collections, done[p].target)

\* C38: a POST /messages is handed to a transport only when its sessionId
\* was a key of the session map, and is answered 400 when it was not or was
\* missing; a transport whose connection has closed is no longer in the
\* map, and no request was handed to a transport after it closed.
C38_OnlyLiveSessionsGetMessages ==
    /\ \A h \in handled :
          (h.req.method = "POST" /\ h.req.path = "/messages") =>
              /\ h.transport # NoTransport =>
                    /\ h.known /\ h.open
                    /\ transports[h.transport].sessionId = h.req.sessionId
              /\ ~h.known => h.status = 400 /\ h.transport = NoTransport
    /\ \A h \in handled :
          h.transport # NoTransport =>
              h.req.method = "POST" /\ h.req.path = "/messages"
    /\ \A n \in 1..Len(transports) :
          transports[n].state = "closed" =>
              transports[n].sessionId \notin DOMAIN sessions
    /\ \A id \in DOMAIN sessions :
          /\ transports[sessions[id]].sessionId = id
          /\ transports[sessions[id]].state = "open"

\* C38 witness: a POST for a session was handed to its transport while the
\* session was open, and the same POST, after that session closed, was
\* answered 400, while another session is still in the map.
C38_Witness ==
    \E n \in 1..Len(transports) :
        /\ transports[n].state = "closed"
        /\ \E h \in handled :
              /\ h.transport = n /\ h.status = 202
        /\ \E h \in handled :
              /\ h.req.hasSessionId /\ h.req.sessionId = SessionId(n)
              /\ h.status = 400 /\ ~h.known
        /\ DOMAIN sessions # {}

====
